---- MODULE Spec2Model ----
(***************************************************************************)
(* CHIP-8 emulator (Tytraman/CHIP-8-Emulator).                             *)
(*                                                                         *)
(* The interpreter crate (memory.rs, register.rs, instruction.rs, chip.rs) *)
(* and the host tick of the main crate (callback.rs) as a state machine.   *)
(* The Chip8 object is the record `chip`; every opcode handler of chip.rs  *)
(* is an operator from (operands, machine) to machine, written from its    *)
(* Rust body.  u8/u16 arithmetic keeps its width: `wrapping_*` wraps, a    *)
(* plain `+`/`-` aborts the process when the build checks overflow (debug  *)
(* profile) and wraps when it does not (release profile); the profile is   *)
(* the field `overflow_checks`, fixed at construction.                     *)
(***************************************************************************)
EXTENDS Integers, Sequences, FiniteSets, TLC

VARIABLES
    chip,   \* the Chip8 object (chip.rs:59-70) with its Registers flattened
    host,   \* the host side of a tick: Config and the keyboard of the last frame
    last,   \* what the last step did (history)
    x1,     \* chip as it was when the last execute_instruction was entered
    x2,     \* chip as it was when the execute_instruction before that was entered
    mem,    \* a Memory object on its own (memory.rs), for the accessor checks
    memop   \* the last operation applied to `mem`, its arguments and result

vars == <<chip, host, last, x1, x2, mem, memop>>

(***************************************************************************)
(* Program constants.                                                      *)
(***************************************************************************)
RamSize == 4096
StackSize == 32
ProgramStart == 512
ScreenWidth == 64
ScreenHeight == 32
NumRegs == 16
NumKeys == 16

Byte == 0..255

(***************************************************************************)
(* Bit-level helpers for u8/u16 values.                                    *)
(***************************************************************************)
Bit(n, k) == (n \div (2 ^ k)) % 2

RECURSIVE BitOp(_, _, _, _)
\* op is the 4-entry truth table <<f(0,0), f(0,1), f(1,0), f(1,1)>>
BitOp(op, a, b, k) ==
    IF k < 0 THEN 0
    ELSE op[2 * Bit(a, k) + Bit(b, k) + 1] * (2 ^ k) + BitOp(op, a, b, k - 1)

\* a & b, a | b, a ^ b on u8 values
BitAnd(a, b) == BitOp(<<0, 0, 0, 1>>, a, b, 7)
BitOr(a, b) == BitOp(<<0, 1, 1, 1>>, a, b, 7)
BitXor(a, b) == BitOp(<<0, 1, 1, 0>>, a, b, 7)

\* (n & mask) >> shift for a mask of `bits` one-bits starting at bit `shift`
Field(n, shift, bits) == (n \div (2 ^ shift)) % (2 ^ bits)

HexDigits == <<"0", "1", "2", "3", "4", "5", "6", "7",
               "8", "9", "A", "B", "C", "D", "E", "F">>

RECURSIVE Hex(_, _)
\* format!("{:0wX}", n): at least w upper-case hexadecimal digits
Hex(n, w) ==
    IF n < 16 /\ w <= 1 THEN <<HexDigits[n + 1]>>
    ELSE Append(Hex(n \div 16, w - 1), HexDigits[(n % 16) + 1])

RECURSIVE Dec(_)
\* format!("{}", n)
Dec(n) == IF n < 10 THEN <<HexDigits[n + 1]>>
          ELSE Append(Dec(n \div 10), HexDigits[(n % 10) + 1])

(***************************************************************************)
(* Memory (memory.rs).  The byte vector `data: Vec<u8>` is held as its     *)
(* length `size` and the function `nz` from the offsets of its non-zero    *)
(* bytes to their values: two vectors are equal exactly when their records *)
(* are.  At is the indexing data[offset], Put the assignment               *)
(* data[offset] = value.  A Result is [ok, val] for reads and [ok, data]   *)
(* for writes.                                                             *)
(***************************************************************************)
VecNew(size) == [size |-> size, nz |-> [a \in {} |-> 0]]

len(data) == data.size

At(data, offset) == IF offset \in DOMAIN data.nz THEN data.nz[offset] ELSE 0

Put(data, offset, value) ==
    LET old == data.nz
    IN  IF value = 0
        THEN [data EXCEPT !.nz = [a \in (DOMAIN old) \ {offset} |-> old[a]]]
        ELSE [data EXCEPT !.nz = [a \in (DOMAIN old) \cup {offset} |->
                                      IF a = offset THEN value ELSE old[a]]]

\* the vector as a function on 0..size-1
Bytes(data) == [a \in 0..(data.size - 1) |-> At(data, a)]

MemoryNew(size) == VecNew(size)

read8(data, offset) ==
    IF offset >= len(data)
    THEN [ok |-> FALSE, val |-> 0]
    ELSE [ok |-> TRUE, val |-> At(data, offset)]

\* read16 taking the byte at offset as the low byte
read16_little_endian(data, offset) ==
    IF len(data) < 2 THEN [ok |-> FALSE, val |-> 0]
    ELSE IF offset >= len(data) - 1 THEN [ok |-> FALSE, val |-> 0]
    ELSE [ok |-> TRUE, val |-> At(data, offset) + 256 * At(data, offset + 1)]

read16(data, offset) ==
    IF len(data) < 2 THEN [ok |-> FALSE, val |-> 0]
    ELSE IF offset >= len(data) - 1 THEN [ok |-> FALSE, val |-> 0]
    ELSE LET msb == At(data, offset)
             lsb == At(data, offset + 1)
         \* (lsb as u16) | ((msb as u16) << 8): the two bytes do not overlap
         IN  [ok |-> TRUE, val |-> lsb + ((msb * 256) % 65536)]

write8(data, offset, value) ==
    IF offset >= len(data)
    THEN [ok |-> FALSE, data |-> data]
    ELSE [ok |-> TRUE, data |-> Put(data, offset, value)]

\* write16 testing the first of its two bytes only
write16_first_byte(data, offset, value) ==
    IF offset >= len(data) THEN [ok |-> FALSE, data |-> data]
    ELSE [ok |-> TRUE, data |-> Put(Put(data, offset, Field(value, 8, 8)),
                                    offset + 1, Field(value, 0, 8))]

write16(data, offset, value) ==
    IF len(data) < 2 THEN [ok |-> FALSE, data |-> data]
    ELSE IF offset >= len(data) - 1 THEN [ok |-> FALSE, data |-> data]
    ELSE LET msb == Field(value, 8, 8)
             lsb == Field(value, 0, 8)
         IN  [ok |-> TRUE, data |-> Put(Put(data, offset, msb), offset + 1, lsb)]

Min(a, b) == IF a < b THEN a ELSE b

\* for (dest, from) in self.data[start..end].iter_mut().zip(content): the
\* shorter of the slice and the content ends the loop, so n bytes are assigned
ZipCopy(data, start, end, content) ==
    LET n == Min(end - start, Len(content))
        written == start..(start + n - 1)
        old == data.nz
        keep == (DOMAIN old) \ written
        set == {a \in written : content[a - start + 1] # 0}
    IN  [data EXCEPT !.nz = [a \in keep \cup set |->
                                IF a \in written THEN content[a - start + 1]
                                ELSE old[a]]]

\* a write_range that copies the content to the front of the vector
write8_range_front(data, start, end, content) ==
    IF start >= end \/ end >= len(data) THEN [ok |-> start = end, data |-> data]
    ELSE [ok |-> TRUE, data |-> ZipCopy(data, 0, end - start, content)]

\* write8_range taking a reversed range as the range [end, start)
write8_range_reversed(data, start, end, content) ==
    IF start = end THEN [ok |-> TRUE, data |-> data]
    ELSE IF start > end
    THEN IF start >= len(data) THEN [ok |-> FALSE, data |-> data]
         ELSE [ok |-> TRUE, data |-> ZipCopy(data, end, start, content)]
    ELSE IF end >= len(data) THEN [ok |-> FALSE, data |-> data]
    ELSE [ok |-> TRUE, data |-> ZipCopy(data, start, end, content)]

write8_range(data, start, end, content) ==
    IF start = end THEN [ok |-> TRUE, data |-> data]
    ELSE IF start > end THEN [ok |-> FALSE, data |-> data]
    ELSE IF end >= len(data) THEN [ok |-> FALSE, data |-> data]
    ELSE [ok |-> TRUE, data |-> ZipCopy(data, start, end, content)]

(***************************************************************************)
(* Operands (instruction.rs:22-41): the bit fields of a 16-bit opcode.     *)
(***************************************************************************)
OperandsOf(instruction) ==
    [nnn    |-> Field(instruction, 0, 12),
     nibble |-> Field(instruction, 0, 4),
     x      |-> Field(instruction, 8, 4),
     y      |-> Field(instruction, 4, 4),
     kk     |-> Field(instruction, 0, 8)]

(***************************************************************************)
(* The machine a handler works on is a record m with the fields            *)
(*   ram, stack          the two Memory objects                            *)
(*   v, pc, sp, i, dt, st  the Registers                                   *)
(*   keys, screen        the key flags and the 64x32 display               *)
(*   calls               the callbacks invoked by the running instruction  *)
(*   panic               the process has aborted (a Rust panic)            *)
(*   overflow_checks     the build profile                                 *)
(* A statement after a panic is never run: every helper leaves a panicked  *)
(* machine as it is.                                                       *)
(***************************************************************************)
Panic(m) == [m EXCEPT !.panic = TRUE]

\* registers.pc += k
pc_add(m, k) ==
    IF m.panic THEN m
    ELSE IF m.pc + k > 65535
         THEN IF m.overflow_checks THEN Panic(m)
              ELSE [m EXCEPT !.pc = (m.pc + k) % 65536]
         ELSE [m EXCEPT !.pc = m.pc + k]

\* a u16 sum `a + b` of an address computation: the value, and whether it overflowed
U16Sum(a, b) == [val |-> (a + b) % 65536, over |-> a + b > 65535]

\* an unknown opcode stepped over like a no-op instruction
unknown_instruction_skip(o, m) == pc_add(m, 2)

unknown_instruction(o, m) == m

\* CLS that tells the renderer but leaves the screen buffer as it is
clean_screen_keep(o, m) ==
    pc_add([m EXCEPT !.calls = Append(@, <<"clear_pixel">>)], 2)

clean_screen(o, m) ==
    pc_add([m EXCEPT !.calls = Append(@, <<"clear_pixel">>),
                     !.screen = VecNew(len(m.screen))], 2)

\* RET that resumes at the call site itself
ret_to_call_site(o, m) ==
    LET m1 == [m EXCEPT !.sp = (m.sp - 2) % 256]
        r  == read16(m1.stack, m1.sp)
    IN  IF m.sp < 2 \/ ~r.ok THEN Panic(m) ELSE [m1 EXCEPT !.pc = r.val]

\* RET that resumes after the oldest call, the one stored at stack[0..1]
ret_oldest(o, m) ==
    IF m.sp < 2 THEN Panic(m)
    ELSE LET r == read16(m.stack, 0)
         IN  [m EXCEPT !.sp = m.sp - 2, !.pc = (r.val + 2) % 65536]

ret(o, m) ==
    IF m.sp < 2 /\ m.overflow_checks THEN Panic(m)
    ELSE LET m1 == [m EXCEPT !.sp = (m.sp - 2) % 256]
             r  == read16(m1.stack, m1.sp)
         IN  IF ~r.ok THEN Panic(m1)
             ELSE IF r.val + 2 > 65535
                  THEN IF m1.overflow_checks THEN Panic(m1)
                       ELSE [m1 EXCEPT !.pc = (r.val + 2) % 65536]
                  ELSE [m1 EXCEPT !.pc = r.val + 2]

jp_addr(o, m) == [m EXCEPT !.pc = o.nnn]

\* CALL that jumps although the push failed
call_addr_unchecked(o, m) ==
    LET w == write16(m.stack, m.sp, m.pc)
    IN  [m EXCEPT !.stack = w.data, !.sp = (m.sp + 2) % 256, !.pc = o.nnn]

call_addr(o, m) ==
    LET w == write16(m.stack, m.sp, m.pc)
    IN  IF ~w.ok THEN m
        ELSE IF m.sp + 2 > 255
             THEN IF m.overflow_checks THEN Panic([m EXCEPT !.stack = w.data])
                  ELSE [m EXCEPT !.stack = w.data, !.sp = (m.sp + 2) % 256,
                                 !.pc = o.nnn]
             ELSE [m EXCEPT !.stack = w.data, !.sp = m.sp + 2, !.pc = o.nnn]

se_reg_byte(o, m) ==
    IF m.v[o.x] = o.kk THEN pc_add(m, 4) ELSE pc_add(m, 2)

sne_reg_byte(o, m) ==
    IF m.v[o.x] # o.kk THEN pc_add(m, 4) ELSE pc_add(m, 2)

se_reg_reg(o, m) ==
    IF m.v[o.x] = m.v[o.y] THEN pc_add(m, 4) ELSE pc_add(m, 2)

ld_reg_byte(o, m) == pc_add([m EXCEPT !.v[o.x] = o.kk], 2)

\* add_reg_byte with the carry written to VF, as the register-register ADD does
add_reg_byte_carry(o, m) ==
    pc_add([m EXCEPT !.v[15] = IF m.v[o.x] + o.kk > 255 THEN 1 ELSE 0,
                     !.v[o.x] = (m.v[o.x] + o.kk) % 256], 2)

add_reg_byte(o, m) ==
    pc_add([m EXCEPT !.v[o.x] = (m.v[o.x] + o.kk) % 256], 2)

ld_reg_reg(o, m) == pc_add([m EXCEPT !.v[o.x] = m.v[o.y]], 2)

or_reg_reg(o, m) ==
    pc_add([m EXCEPT !.v[o.x] = BitOr(m.v[o.x], m.v[o.y])], 2)

and_reg_reg(o, m) ==
    pc_add([m EXCEPT !.v[o.x] = BitAnd(m.v[o.x], m.v[o.y])], 2)

xor_reg_reg(o, m) ==
    pc_add([m EXCEPT !.v[o.x] = BitXor(m.v[o.x], m.v[o.y])], 2)

add_reg_reg(o, m) ==
    LET result == m.v[o.x] + m.v[o.y]
        m1 == [m EXCEPT !.v[15] = IF result > 255 THEN 1 ELSE 0]
        m2 == [m1 EXCEPT !.v[o.x] = Field(result, 0, 8)]
    IN  pc_add(m2, 2)

sub_reg_reg(o, m) ==
    LET m1 == [m EXCEPT !.v[15] = IF m.v[o.x] > m.v[o.y] THEN 1 ELSE 0]
        m2 == [m1 EXCEPT !.v[o.x] = (m1.v[o.x] - m1.v[o.y]) % 256]
    IN  pc_add(m2, 2)

shr_reg_reg(o, m) ==
    LET value == m.v[o.x]
        m1 == [m EXCEPT !.v[15] = IF Field(value, 0, 1) > 0 THEN 1 ELSE 0]
        m2 == [m1 EXCEPT !.v[o.x] = value \div 2]
    IN  pc_add(m2, 2)

subn_reg_reg(o, m) ==
    LET m1 == [m EXCEPT !.v[15] = IF m.v[o.y] > m.v[o.x] THEN 1 ELSE 0]
        d  == m1.v[o.y] - m1.v[o.x]
    IN  IF d < 0 /\ m1.overflow_checks THEN Panic(m1)
        ELSE pc_add([m1 EXCEPT !.v[o.x] = d % 256], 2)

shl_reg_reg(o, m) ==
    LET value == m.v[o.x]
        m1 == [m EXCEPT !.v[15] = IF Field(value, 7, 1) > 0 THEN 1 ELSE 0]
        m2 == [m1 EXCEPT !.v[o.x] = (value * 2) % 256]
    IN  pc_add(m2, 2)

sne_reg_reg(o, m) ==
    IF m.v[o.x] # m.v[o.y] THEN pc_add(m, 4) ELSE pc_add(m, 2)

ld_i_addr(o, m) == pc_add([m EXCEPT !.i = o.nnn], 2)

jp_v0_addr(o, m) == [m EXCEPT !.pc = o.nnn + m.v[0]]

\* random_number is the byte rng.gen_range(0..256) drew
rnd_reg_byte(o, m, random_number) ==
    pc_add([m EXCEPT !.v[o.x] = BitAnd(random_number, o.kk)], 2)

(***************************************************************************)
(* DRW Vx,Vy,n (chip.rs:604-666).  The two loops are the recursions        *)
(* DrwCols (col in 0..8) and DrwRows (row in 0..nibble); DrwRows yields    *)
(* the machine and whether the handler returned early on a failed read8.   *)
(* registers.v[x] and registers.v[y] are read again on every iteration.    *)
(***************************************************************************)
RECURSIVE DrwColsUnshifted(_, _, _, _, _)
\* the column loop with sprite_bit = sprite & (0x80 >> col), not shifted down
DrwColsUnshifted(o, m, yy, sprite, col) ==
    IF col >= 8 \/ m.panic THEN m
    ELSE LET s == m.v[o.x] + col
         IN  IF s > 255 /\ m.overflow_checks THEN Panic(m)
             ELSE LET xx == (s % 256) % ScreenWidth
                      cell == yy * ScreenWidth + xx
                      current_pixel == At(m.screen, cell)
                      sprite_bit == Field(sprite, 7 - col, 1) * (2 ^ (7 - col))
                      m1 == IF BitAnd(sprite_bit, current_pixel) # 0
                            THEN [m EXCEPT !.v[15] = 1] ELSE m
                      pixel == BitXor(current_pixel, sprite_bit)
                      m2 == [m1 EXCEPT !.screen = Put(@, cell, pixel)]
                      m3 == IF pixel # 0
                            THEN [m2 EXCEPT !.calls = Append(@, <<"set_pixel", xx, yy>>)]
                            ELSE [m2 EXCEPT !.calls = Append(@, <<"unset_pixel", xx, yy>>)]
                  IN  DrwColsUnshifted(o, m3, yy, sprite, col + 1)

RECURSIVE DrwCols(_, _, _, _, _)
DrwCols(o, m, yy, sprite, col) ==
    IF col >= 8 \/ m.panic THEN m
    ELSE LET s == m.v[o.x] + col
         IN  IF s > 255 /\ m.overflow_checks THEN Panic(m)
             ELSE LET xx == (s % 256) % ScreenWidth
                      cell == yy * ScreenWidth + xx
                      current_pixel == At(m.screen, cell)
                      sprite_bit == Field(sprite, 7 - col, 1)
                      m1 == IF BitAnd(sprite_bit, current_pixel) # 0
                            THEN [m EXCEPT !.v[15] = 1] ELSE m
                      pixel == BitXor(current_pixel, sprite_bit)
                      m2 == [m1 EXCEPT !.screen = Put(@, cell, pixel)]
                      m3 == IF pixel # 0
                            THEN [m2 EXCEPT !.calls = Append(@, <<"set_pixel", xx, yy>>)]
                            ELSE [m2 EXCEPT !.calls = Append(@, <<"unset_pixel", xx, yy>>)]
                  IN  DrwCols(o, m3, yy, sprite, col + 1)

RECURSIVE DrwRows(_, _, _)
DrwRows(o, m, row) ==
    IF m.panic THEN [m |-> m, returned |-> TRUE]
    ELSE IF row >= o.nibble THEN [m |-> m, returned |-> FALSE]
    ELSE LET yy == ((m.v[o.y] + row) % 256) % ScreenHeight
             addr == U16Sum(m.i, row)
         IN  IF addr.over /\ m.overflow_checks
             THEN [m |-> Panic(m), returned |-> TRUE]
             ELSE LET r == read8(m.ram, addr.val)
                  IN  IF ~r.ok THEN [m |-> m, returned |-> TRUE]
                      ELSE DrwRows(o, DrwCols(o, m, yy, r.val, 0), row + 1)

drw_reg_reg_nibble(o, m) ==
    LET m0 == [m EXCEPT !.v[15] = 0]
    IN  IF o.x > 15 \/ o.y > 15 THEN m0
        ELSE IF o.nibble > 15 THEN m0
        ELSE LET d == DrwRows(o, m0, 0)
             IN  IF d.returned THEN d.m ELSE pc_add(d.m, 2)

(***************************************************************************)
(* Keys, timers, index register, BCD and block transfers                   *)
(* (chip.rs:668-770).                                                      *)
(***************************************************************************)
\* SKP testing the key whose number is the operand x, not the value of Vx
skp_reg_operand(o, m) ==
    IF m.keys[o.x] THEN pc_add(m, 4) ELSE pc_add(m, 2)

skp_reg(o, m) ==
    IF m.v[o.x] >= NumKeys THEN Panic(m)
    ELSE IF m.keys[m.v[o.x]] THEN pc_add(m, 4) ELSE pc_add(m, 2)

sknp_reg(o, m) ==
    IF m.v[o.x] >= NumKeys THEN Panic(m)
    ELSE IF ~m.keys[m.v[o.x]] THEN pc_add(m, 4) ELSE pc_add(m, 2)

ld_reg_dt(o, m) == pc_add([m EXCEPT !.v[o.x] = m.dt], 2)

\* keys.iter().position(|&pressed| pressed): the first pressed key, if any
\* LD Vx,K that takes the highest-numbered pressed key
ld_reg_k_last(o, m) ==
    LET pressed == {k \in DOMAIN m.keys : m.keys[k]}
    IN  IF pressed # {}
        THEN LET index == CHOOSE k \in pressed : \A j \in pressed : k >= j
             IN  pc_add([m EXCEPT !.v[o.x] = index], 2)
        ELSE m

\* LD Vx,K that also clears the flag of the key it took
ld_reg_k_consume(o, m) ==
    LET pressed == {k \in DOMAIN m.keys : m.keys[k]}
    IN  IF pressed # {}
        THEN LET index == CHOOSE k \in pressed : \A j \in pressed : k <= j
             IN  pc_add([m EXCEPT !.v[o.x] = index, !.keys[index] = FALSE], 2)
        ELSE m

ld_reg_k(o, m) ==
    LET pressed == {k \in DOMAIN m.keys : m.keys[k]}
    IN  IF pressed # {}
        THEN LET index == CHOOSE k \in pressed : \A j \in pressed : k <= j
             IN  pc_add([m EXCEPT !.v[o.x] = index], 2)
        ELSE m

ld_dt_reg(o, m) == pc_add([m EXCEPT !.dt = m.v[o.x]], 2)

ld_st_reg(o, m) == pc_add([m EXCEPT !.st = m.v[o.x]], 2)

add_i_reg(o, m) ==
    LET s == U16Sum(m.i, m.v[o.x])
    IN  IF s.over /\ m.overflow_checks THEN Panic(m)
        ELSE pc_add([m EXCEPT !.i = s.val], 2)

ld_i_reg(o, m) == pc_add([m EXCEPT !.i = m.v[o.x] * 5], 2)

\* LD B,Vx that stores the ones digit first and the hundreds digit last
ld_b_reg_reversed(o, m) ==
    LET value == m.v[o.x]
        w0 == write8(m.ram, m.i, value % 10)
        w1 == write8(w0.data, m.i + 1, (value \div 10) % 10)
        w2 == write8(w1.data, m.i + 2, (value \div 100) % 10)
    IN  IF w2.ok THEN pc_add([m EXCEPT !.ram = w2.data], 2) ELSE m

ld_b_reg(o, m) ==
    LET value == m.v[o.x]
        a2 == U16Sum(m.i, 2)
        a1 == U16Sum(m.i, 1)
    IN  IF a2.over /\ m.overflow_checks THEN Panic(m)
        ELSE LET w2 == write8(m.ram, a2.val, value % 10)
             IN  IF ~w2.ok THEN m
                 ELSE IF a1.over /\ m.overflow_checks
                      THEN Panic([m EXCEPT !.ram = w2.data])
                 ELSE LET w1 == write8(w2.data, a1.val, (value \div 10) % 10)
                      IN  IF ~w1.ok THEN [m EXCEPT !.ram = w2.data]
                          ELSE LET w0 == write8(w1.data, m.i,
                                                ((value \div 10) \div 10) % 10)
                               IN  IF ~w0.ok THEN [m EXCEPT !.ram = w1.data]
                                   ELSE pc_add([m EXCEPT !.ram = w0.data], 2)

RECURSIVE StoreRegs(_, _, _)
\* the loop of ld_to_i_reg from `index` on; returned: a failed write8 ended it
StoreRegs(o, m, index) ==
    IF index >= o.x + 1 THEN [m |-> m, returned |-> FALSE]
    ELSE LET a == U16Sum(m.i, index)
         IN  IF a.over /\ m.overflow_checks
             THEN [m |-> Panic(m), returned |-> TRUE]
             ELSE LET w == write8(m.ram, a.val, m.v[index])
                  IN  IF ~w.ok THEN [m |-> m, returned |-> TRUE]
                      ELSE StoreRegs(o, [m EXCEPT !.ram = w.data], index + 1)

\* LD [I],Vx storing V0..Vx-1 only
ld_to_i_reg_exclusive(o, m) ==
    LET d == StoreRegs([o EXCEPT !.x = o.x - 1], m, 0)
    IN  IF d.returned THEN d.m ELSE pc_add(d.m, 2)

ld_to_i_reg(o, m) ==
    LET d == StoreRegs(o, m, 0)
    IN  IF d.returned THEN d.m ELSE pc_add(d.m, 2)

RECURSIVE LoadRegs(_, _, _)
\* the loop of ld_reg_from_i from `index` on; returned: a failed read8 ended it
LoadRegs(o, m, index) ==
    IF index >= o.x + 1 THEN [m |-> m, returned |-> FALSE]
    ELSE LET a == U16Sum(m.i, index)
         IN  IF a.over /\ m.overflow_checks
             THEN [m |-> Panic(m), returned |-> TRUE]
             ELSE LET r == read8(m.ram, a.val)
                  IN  IF ~r.ok THEN [m |-> m, returned |-> TRUE]
                      ELSE LoadRegs(o, [m EXCEPT !.v[index] = r.val], index + 1)

ld_reg_from_i(o, m) ==
    LET d == LoadRegs(o, m, 0)
    IN  IF d.returned THEN d.m ELSE pc_add(d.m, 2)

(***************************************************************************)
(* Instruction (instruction.rs:13-66) and the decoder (chip.rs:171-368).   *)
(* A disassembly string is the sequence of its pieces; the handler bound   *)
(* to an instruction is the name of its function.                          *)
(***************************************************************************)
InstructionNew(disassembled, instruction, pc) ==
    [disassembled |-> disassembled,
     instruction  |-> instruction,
     pc           |-> pc,
     operands     |-> OperandsOf(instruction),
     exec         |-> "unknown_instruction"]

set_disassembled(ins, value) ==
    [ins EXCEPT !.disassembled = Hex(ins.pc, 4) \o <<" - ">> \o value]

set_callback(ins, exec) == [ins EXCEPT !.exec = exec]

Bind(ins, value, exec) == set_callback(set_disassembled(ins, value), exec)

VReg(r) == <<"V">> \o Hex(r, 1)

Decode8(ins, instruction) ==
    LET o == ins.operands
        n == Field(instruction, 0, 4)
        xy == VReg(o.x) \o <<", ">> \o VReg(o.y)
    IN  CASE n = 0 -> Bind(ins, <<"LD ">> \o xy, "ld_reg_reg")
          [] n = 1 -> Bind(ins, <<"OR ">> \o xy, "or_reg_reg")
          [] n = 2 -> Bind(ins, <<"AND ">> \o xy, "and_reg_reg")
          [] n = 3 -> Bind(ins, <<"XOR ">> \o xy, "xor_reg_reg")
          [] n = 4 -> Bind(ins, <<"ADD ">> \o xy, "add_reg_reg")
          [] n = 5 -> Bind(ins, <<"SUB ">> \o xy, "sub_reg_reg")
          [] n = 6 -> Bind(ins, <<"SHR ">> \o VReg(o.x), "shr_reg_reg")
          [] n = 7 -> Bind(ins, <<"SUBN ">> \o xy, "subn_reg_reg")
          [] n = 14 -> Bind(ins, <<"SHL ">> \o VReg(o.x), "shl_reg_reg")
          [] OTHER -> ins

DecodeE(ins, instruction) ==
    LET o == ins.operands
        b == Field(instruction, 0, 8)
    IN  CASE b = 158 -> Bind(ins, <<"SKP ">> \o VReg(o.x), "skp_reg")
          [] b = 161 -> Bind(ins, <<"SKNP ">> \o VReg(o.x), "sknp_reg")
          [] OTHER -> ins

DecodeF(ins, instruction) ==
    LET o == ins.operands
        b == Field(instruction, 0, 8)
    IN  CASE b = 7 -> Bind(ins, <<"LD ">> \o VReg(o.x) \o <<", DT">>, "ld_reg_dt")
          [] b = 10 -> Bind(ins, <<"LD ">> \o VReg(o.x) \o <<", K">>, "ld_reg_k")
          [] b = 21 -> Bind(ins, <<"LD DT, ">> \o VReg(o.x), "ld_dt_reg")
          [] b = 24 -> Bind(ins, <<"LD ST, ">> \o VReg(o.x), "ld_st_reg")
          [] b = 30 -> Bind(ins, <<"ADD I, ">> \o VReg(o.x), "add_i_reg")
          [] b = 41 -> Bind(ins, <<"LD I, ">> \o VReg(o.x), "ld_i_reg")
          [] b = 51 -> Bind(ins, <<"LD B, ">> \o VReg(o.x), "ld_b_reg")
          [] b = 85 -> Bind(ins, <<"LD [I], ">> \o VReg(o.x), "ld_to_i_reg")
          [] b = 101 -> Bind(ins, <<"LD ">> \o VReg(o.x) \o <<", [I]">>, "ld_reg_from_i")
          [] OTHER -> ins

\* the Instruction that decode_instruction stores in self.next_instruction
decode_instruction(instruction, pc) ==
    LET ins == InstructionNew(<<>>, instruction, pc)
        o == ins.operands
        top == Field(instruction, 12, 4)
        addr == <<"$">> \o Hex(o.nnn, 4)
        xkk == VReg(o.x) \o <<", ">> \o Hex(o.kk, 2)
        xy == VReg(o.x) \o <<", ">> \o VReg(o.y)
    IN  CASE top = 0 ->
               (CASE instruction = 224 -> Bind(ins, <<"CLS">>, "clean_screen")
                  [] instruction = 238 -> Bind(ins, <<"RET">>, "ret")
                  [] OTHER -> set_disassembled(ins, <<"SYS ">> \o addr))
          [] top = 1 -> Bind(ins, <<"JP ">> \o addr, "jp_addr")
          [] top = 2 -> Bind(ins, <<"CALL ">> \o addr, "call_addr")
          [] top = 3 -> Bind(ins, <<"SE ">> \o xkk, "se_reg_byte")
          [] top = 4 -> Bind(ins, <<"SNE ">> \o xkk, "sne_reg_byte")
          [] top = 5 -> Bind(ins, <<"SE ">> \o xy, "se_reg_reg")
          [] top = 6 -> Bind(ins, <<"LD ">> \o xkk, "ld_reg_byte")
          [] top = 7 -> Bind(ins, <<"ADD ">> \o xkk, "add_reg_byte")
          [] top = 8 -> Decode8(ins, instruction)
          [] top = 9 -> Bind(ins, <<"SNE ">> \o xy, "sne_reg_reg")
          [] top = 10 -> Bind(ins, <<"LD I, ">> \o addr, "ld_i_addr")
          [] top = 11 -> Bind(ins, <<"JP V0, ">> \o addr, "jp_v0_addr")
          [] top = 12 -> Bind(ins, <<"RND ">> \o xkk, "rnd_reg_byte")
          [] top = 13 -> Bind(ins, <<"DRW ">> \o xy \o <<", ">> \o Dec(o.nibble),
                              "drw_reg_reg_nibble")
          [] top = 14 -> DecodeE(ins, instruction)
          [] top = 15 -> DecodeF(ins, instruction)
          [] OTHER -> ins

\* Instruction::execute: (self.exec)(self.instruction, &self.operands, ...)
execute(ins, m, random_number) ==
    LET o == ins.operands
        e == ins.exec
    IN  CASE e = "clean_screen" -> clean_screen(o, m)
          [] e = "ret" -> ret(o, m)
          [] e = "jp_addr" -> jp_addr(o, m)
          [] e = "call_addr" -> call_addr(o, m)
          [] e = "se_reg_byte" -> se_reg_byte(o, m)
          [] e = "sne_reg_byte" -> sne_reg_byte(o, m)
          [] e = "se_reg_reg" -> se_reg_reg(o, m)
          [] e = "ld_reg_byte" -> ld_reg_byte(o, m)
          [] e = "add_reg_byte" -> add_reg_byte(o, m)
          [] e = "ld_reg_reg" -> ld_reg_reg(o, m)
          [] e = "or_reg_reg" -> or_reg_reg(o, m)
          [] e = "and_reg_reg" -> and_reg_reg(o, m)
          [] e = "xor_reg_reg" -> xor_reg_reg(o, m)
          [] e = "add_reg_reg" -> add_reg_reg(o, m)
          [] e = "sub_reg_reg" -> sub_reg_reg(o, m)
          [] e = "shr_reg_reg" -> shr_reg_reg(o, m)
          [] e = "subn_reg_reg" -> subn_reg_reg(o, m)
          [] e = "shl_reg_reg" -> shl_reg_reg(o, m)
          [] e = "sne_reg_reg" -> sne_reg_reg(o, m)
          [] e = "ld_i_addr" -> ld_i_addr(o, m)
          [] e = "jp_v0_addr" -> jp_v0_addr(o, m)
          [] e = "rnd_reg_byte" -> rnd_reg_byte(o, m, random_number)
          [] e = "drw_reg_reg_nibble" -> drw_reg_reg_nibble(o, m)
          [] e = "skp_reg" -> skp_reg(o, m)
          [] e = "sknp_reg" -> sknp_reg(o, m)
          [] e = "ld_reg_dt" -> ld_reg_dt(o, m)
          [] e = "ld_reg_k" -> ld_reg_k(o, m)
          [] e = "ld_dt_reg" -> ld_dt_reg(o, m)
          [] e = "ld_st_reg" -> ld_st_reg(o, m)
          [] e = "add_i_reg" -> add_i_reg(o, m)
          [] e = "ld_i_reg" -> ld_i_reg(o, m)
          [] e = "ld_b_reg" -> ld_b_reg(o, m)
          [] e = "ld_to_i_reg" -> ld_to_i_reg(o, m)
          [] e = "ld_reg_from_i" -> ld_reg_from_i(o, m)
          [] OTHER -> unknown_instruction(o, m)

(***************************************************************************)
(* Chip8 (chip.rs:59-433).                                                 *)
(***************************************************************************)
sprites ==
    <<240, 144, 144, 144, 240,  32,  96,  32,  32, 112, 240,  16, 240, 128, 240,
      240,  16, 240,  16, 240, 144, 144, 240,  16,  16, 240, 128, 240,  16, 240,
      240, 128, 240, 144, 240, 240,  16,  32,  64,  64, 240, 144, 240, 144, 240,
      240, 144, 240,  16, 240, 240, 144, 240, 144, 144, 224, 144, 224, 144, 224,
      240, 128, 128, 128, 240, 224, 144, 144, 144, 224, 240, 128, 240, 128, 240,
      240, 128, 240, 128, 128>>

add_hex_sprites(ram) == write8_range(ram, 0, Len(sprites), sprites)

\* Chip8::build on the bytes of the program file, in a build with or without
\* overflow checks: [ok, chip]; a panic in build leaves ok = FALSE as well
build(content, overflow_checks) ==
    LET f == add_hex_sprites(MemoryNew(RamSize))
        end == (Len(content) % 65536) + ProgramStart
        w == write8_range(f.data, ProgramStart, end % 65536, content)
        c == [ram |-> w.data,
              stack |-> MemoryNew(StackSize),
              v |-> [r \in 0..(NumRegs - 1) |-> 0],
              pc |-> ProgramStart, sp |-> 0, i |-> 0, dt |-> 0, st |-> 0,
              dt_instant |-> 0, st_instant |-> 0,
              screen |-> VecNew(ScreenWidth * ScreenHeight),
              keys |-> [k \in 0..(NumKeys - 1) |-> FALSE],
              paused |-> TRUE,
              need_to_fetch |-> TRUE,
              next_instruction |-> InstructionNew(<<>>, 0, 0),
              calls |-> <<>>,
              panic |-> FALSE,
              overflow_checks |-> overflow_checks]
    IN  [ok |-> f.ok /\ w.ok /\ ~(end > 65535 /\ overflow_checks), chip |-> c]

\* a flag that always asks for a fetch
need_to_fetch_always(c) == TRUE

need_to_fetch(c) == c.need_to_fetch

set_need_to_fetch(c, value) == [c EXCEPT !.need_to_fetch = value]

\* a fetch that keeps the low 12 bits of PC
fetch_next_instruction_wrapped(c) == read16(c.ram, c.pc % RamSize)

fetch_next_instruction(c) == read16(c.ram, c.pc)

\* execute_instruction after the handler returned c1 (chip.rs:376-396): each
\* timer loses 1 when it is due and above 0; a handler that panicked never
\* comes back here
\* Instant::now() read while `instant` is stored: a later reading, which
\* differs from the stored one (readings are told apart, not measured)
Now(instant) == (instant + 1) % 2

\* the decay with no test of the timer's value: `dt -= 1` in a release build
timer_step_wrapping(c1, dt_due, st_due) ==
    IF c1.panic THEN c1
    ELSE [c1 EXCEPT !.dt = IF dt_due THEN (@ - 1) % 256 ELSE @,
                    !.dt_instant = IF dt_due THEN Now(@) ELSE @,
                    !.st = IF st_due THEN (@ - 1) % 256 ELSE @,
                    !.st_instant = IF st_due THEN Now(@) ELSE @]

timer_step(c1, dt_due, st_due) ==
    IF c1.panic THEN c1
    ELSE [c1 EXCEPT !.dt = IF dt_due /\ @ > 0 THEN @ - 1 ELSE @,
                    !.dt_instant = IF dt_due THEN Now(@) ELSE @,
                    !.st = IF st_due /\ @ > 0 THEN @ - 1 ELSE @,
                    !.st_instant = IF st_due THEN Now(@) ELSE @]

\* The handler, then the decay of the two timers.  dt_due / st_due: at least
\* 1/60 s have passed since dt_instant / st_instant.  `calls` starts empty: it
\* lists the callbacks this call invoked.
execute_instruction(c, random_number, dt_due, st_due) ==
    timer_step(execute(c.next_instruction, [c EXCEPT !.calls = <<>>], random_number),
               dt_due, st_due)

\* an engine that never reports itself paused
is_paused_never(c) == FALSE

is_paused(c) == c.paused

set_pause(c, value) == [c EXCEPT !.paused = value]

\* [ok, chip]
set_register_value(c, register_number, value) ==
    IF register_number \in DOMAIN c.v
    THEN [ok |-> TRUE, chip |-> [c EXCEPT !.v[register_number] = value]]
    ELSE [ok |-> FALSE, chip |-> c]

\* a setter that folds the index into the 16 keys
set_key_pressed_folded(c, index, value) == [c EXCEPT !.keys[index % 16] = value]

set_key_pressed(c, index, value) ==
    IF index > 15 THEN c ELSE [c EXCEPT !.keys[index] = value]

(***************************************************************************)
(* The host tick (callback.rs:17-164).  kbd is the set of keyboard keys    *)
(* held down in this frame, h.kbd that of the frame before (the            *)
(* `last_state` of every key); elapsed: at least 1/500 s have passed since *)
(* the last instruction.                                                   *)
(***************************************************************************)
KeyMap ==
    << <<"1", 1>>, <<"2", 2>>, <<"3", 3>>, <<"4", 12>>,
       <<"a", 4>>, <<"z", 5>>, <<"e", 6>>, <<"r", 13>>,
       <<"q", 7>>, <<"s", 8>>, <<"d", 9>>, <<"f", 14>>,
       <<"w", 10>>, <<"x", 0>>, <<"c", 11>>, <<"v", 15>> >>

RECURSIVE check_chip_keys(_, _, _)
\* callback.rs:27-74, from the n-th check_key_state call on
check_chip_keys(c, kbd, n) ==
    IF n > Len(KeyMap) THEN c
    ELSE check_chip_keys(set_key_pressed(c, KeyMap[n][2], KeyMap[n][1] \in kbd),
                         kbd, n + 1)

\* pressed now and released in the frame before
JustPressed(h, kbd, key) == key \in kbd /\ key \notin h.kbd

\* callback.rs:76-88: "p" just pressed toggles config.auto_next_instruction
auto_next_instruction(h, kbd) ==
    IF JustPressed(h, kbd, "p")
    THEN ~h.auto_next_instruction ELSE h.auto_next_instruction

\* callback.rs:90-99: without automatic running the engine is paused unless
\* "n" was just pressed
step_key(c1, h, kbd) ==
    IF ~auto_next_instruction(h, kbd)
    THEN (IF JustPressed(h, kbd, "n")
          THEN set_pause(c1, FALSE) ELSE set_pause(c1, TRUE))
    ELSE c1

\* callback.rs:101-115: space just pressed toggles the pause in automatic running
space_key(c2, h, kbd) ==
    IF JustPressed(h, kbd, " ") /\ auto_next_instruction(h, kbd)
    THEN set_pause(c2, ~is_paused(c2)) ELSE c2

\* callback.rs:27-115: the engine after all key handling
handle_keys(c, h, kbd) ==
    space_key(step_key(check_chip_keys(c, kbd, 1), h, kbd), h, kbd)

\* callback.rs:117-143: fetch and decode when the engine asks for it; a failed
\* fetch makes update_callback return
fetch_decode(c3) ==
    IF ~need_to_fetch(c3)
    THEN [chip |-> c3, fetched |-> FALSE, fetch_failed |-> FALSE]
    ELSE IF ~fetch_next_instruction(c3).ok
    THEN [chip |-> c3, fetched |-> FALSE, fetch_failed |-> TRUE]
    ELSE [chip |-> set_need_to_fetch(
                       [c3 EXCEPT !.next_instruction =
                            decode_instruction(fetch_next_instruction(c3).val, c3.pc)],
                       FALSE),
          fetched |-> TRUE, fetch_failed |-> FALSE]

\* callback.rs:159-161: set_need_to_fetch(true) after execute_instruction
\* returned; a panic inside execute_instruction ends the process before it
after_execute(e) == IF e.panic THEN e ELSE set_need_to_fetch(e, TRUE)

\* callback.rs:145-163 on the engine c4 that fetch and decode left
run(c4, elapsed, random_number, dt_due, st_due) ==
    IF ~is_paused(c4) /\ elapsed
    THEN after_execute(execute_instruction(c4, random_number, dt_due, st_due))
    ELSE c4

\* the rest of update_callback after fetch and decode gave fd
finish(fd, h1, elapsed, random_number, dt_due, st_due) ==
    IF fd.fetch_failed
    THEN [chip |-> fd.chip, host |-> h1, fetched |-> FALSE, fetch_failed |-> TRUE,
          executed |-> FALSE, entered |-> fd.chip]
    ELSE [chip |-> run(fd.chip, elapsed, random_number, dt_due, st_due),
          host |-> h1, fetched |-> fd.fetched, fetch_failed |-> FALSE,
          executed |-> ~is_paused(fd.chip) /\ elapsed, entered |-> fd.chip]

\* [chip, host] after the tick, with what the tick did: fetched, fetch_failed,
\* executed, and entered, the engine as execute_instruction found it
update_callback(c, h, kbd, elapsed, random_number, dt_due, st_due) ==
    finish(fetch_decode(handle_keys(c, h, kbd)),
           [auto_next_instruction |-> auto_next_instruction(h, kbd), kbd |-> kbd],
           elapsed, random_number, dt_due, st_due)

(***************************************************************************)
(* Steps of the model.                                                     *)
(*                                                                         *)
(* History: `last` says what the last tick did; execs counts the calls of  *)
(* execute_instruction so far (it stops counting at 2); decodes counts the *)
(* decodes since the last return of execute_instruction, and               *)
(* decodes_at_exec is that count when execute_instruction was last         *)
(* entered.  x1 and x2 are the Chip8 on entry to the last two calls of     *)
(* execute_instruction.                                                    *)
(***************************************************************************)
HostInit == [auto_next_instruction |-> FALSE, kbd |-> {}]

LastInit ==
    [op |-> "build", fetched |-> FALSE, fetch_failed |-> FALSE,
     executed |-> FALSE, execs |-> 0, decodes |-> 0, decodes_at_exec |-> 0,
     dt_due |-> FALSE, st_due |-> FALSE,
     pending |-> <<>>, popped |-> <<>>]

\* the calls not yet returned from, oldest first, after execute_instruction ran
\* the instruction of machine `entered`: a CALL entered with room on the stack
\* (SP <= 30) adds its address and its SP, a RET removes the newest
PendingAfter(pending, entered) ==
    CASE entered.next_instruction.exec = "call_addr" /\ entered.sp <= StackSize - 2 ->
            Append(pending, [site |-> entered.next_instruction.pc, sp |-> entered.sp])
      [] entered.next_instruction.exec = "ret" /\ pending # <<>> ->
            SubSeq(pending, 1, Len(pending) - 1)
      [] OTHER -> pending

\* the call a RET entered in machine `entered` returns from, if any
PoppedBy(pending, entered) ==
    IF entered.next_instruction.exec = "ret" /\ pending # <<>>
    THEN <<pending[Len(pending)]>>
    ELSE <<>>

\* the state after Chip8::build(content) succeeded and main installed the tick
Built(content, overflow_checks) ==
    \E b \in {build(content, overflow_checks)} :
        /\ b.ok
        /\ chip = b.chip
        /\ host = HostInit
        /\ last = LastInit
        /\ x1 = b.chip
        /\ x2 = b.chip
        /\ mem = <<>>
        /\ memop = [op |-> "none"]

\* one call of update_callback by the window loop
Tick(kbds, elapseds, rnds, dues) ==
    /\ ~chip.panic
    /\ \E kbd \in kbds, elapsed \in elapseds, random_number \in rnds, due \in dues :
          \E r \in {update_callback(chip, host, kbd, elapsed, random_number,
                                    due[1], due[2])} :
              /\ chip' = r.chip
              /\ host' = r.host
              /\ last' = [op |-> "tick",
                          fetched |-> r.fetched,
                          fetch_failed |-> r.fetch_failed,
                          executed |-> r.executed,
                          execs |-> Min(last.execs + (IF r.executed THEN 1 ELSE 0), 2),
                          decodes |-> IF r.executed THEN 0
                                      ELSE last.decodes + (IF r.fetched THEN 1 ELSE 0),
                          decodes_at_exec |->
                              IF r.executed
                              THEN last.decodes + (IF r.fetched THEN 1 ELSE 0)
                              ELSE last.decodes_at_exec,
                          dt_due |-> r.executed /\ due[1],
                          st_due |-> r.executed /\ due[2],
                          pending |-> IF r.executed
                                      THEN PendingAfter(last.pending, r.entered)
                                      ELSE last.pending,
                          popped |-> IF r.executed
                                     THEN PoppedBy(last.pending, r.entered)
                                     ELSE last.popped]
              /\ x1' = IF r.executed THEN r.entered ELSE x1
              /\ x2' = IF r.executed THEN x1 ELSE x2
              /\ UNCHANGED <<mem, memop>>

(***************************************************************************)
(* Programs.  An opcode is a 16-bit word; Assemble gives the bytes of the  *)
(* program file (big-endian, as fetch reads them back).                    *)
(***************************************************************************)
RECURSIVE Assemble(_)
Assemble(words) ==
    IF words = <<>> THEN <<>>
    ELSE <<Head(words) \div 256, Head(words) % 256>> \o Assemble(Tail(words))

OpXKK(top, x, kk) == top * 4096 + x * 256 + kk
OpXYN(top, x, y, n) == top * 4096 + x * 256 + y * 16 + n
OpNNN(top, nnn) == top * 4096 + nnn

\* the host steps the program: "n" pressed in one frame, released in the next
StepKbds == {{}, {"n"}}

\* <<dt_due, st_due>>: whether 1/60 s has passed since the timer's instant
NotDue == {<<FALSE, FALSE>>}

(***************************************************************************)
(* SpecAlu: programs  LD Vx,a ; LD Vy,b ; ADD Vx,Vy  and                   *)
(*                    LD Vx,a ; ADD Vx,kk ,                                *)
(* stepped by the host.                                                    *)
(***************************************************************************)
AluRegs == {0, 1, 14, 15}
AluBytes == {0, 1, 128, 255}

AluPrograms ==
    {<<OpXKK(6, x, a), OpXKK(6, y, b), OpXYN(8, x, y, 4)>> :
        x \in AluRegs, y \in AluRegs, a \in AluBytes, b \in AluBytes}
    \cup
    {<<OpXKK(6, x, a), OpXKK(7, x, b)>> :
        x \in 0..(NumRegs - 1), a \in AluBytes, b \in AluBytes}

InitAlu ==
    \E words \in AluPrograms, oc \in BOOLEAN : Built(Assemble(words), oc)

NextAlu == Tick(StepKbds, {TRUE}, {0}, NotDue)

SpecAlu == InitAlu /\ [][NextAlu]_vars

(***************************************************************************)
(* Properties.  Executed(h): the last tick called execute_instruction and  *)
(* the instruction it ran was bound to handler h; x1 is the machine on     *)
(* entry to that call, chip the machine after it.                          *)
(***************************************************************************)
Executed(h) == last.executed /\ x1.next_instruction.exec = h

Ran(h) == Executed(h) /\ ~chip.panic

Op1 == x1.next_instruction.operands

\* the registers a handler can reach, apart from the V registers and PC
SameISp(a, b) == a.i = b.i /\ a.sp = b.sp

\* C1: for all x, y in 0..15 (x = F and y = F included), after ADD Vx,Vy:
\* VF = 1 if old Vx + old Vy > 255 and 0 otherwise, Vx = (old Vx + old Vy) mod 256,
\* PC = old PC + 2.
C1_AddRegReg ==
    Executed("add_reg_reg") =>
        LET s == x1.v[Op1.x] + x1.v[Op1.y]
        IN  /\ ~chip.panic
            /\ chip.v[15] = (IF s > 255 THEN 1 ELSE 0)
            /\ chip.v[Op1.x] = s % 256
            /\ chip.pc = x1.pc + 2

\* C9: for all x in 0..15 and all kk, after ADD Vx,kk: Vx = (old Vx + kk) mod 256,
\* PC = old PC + 2, and no other V register (VF included when x is not F), nor I,
\* nor SP, has changed.
C9_AddRegByte ==
    Executed("add_reg_byte") =>
        /\ ~chip.panic
        /\ chip.v[Op1.x] = (x1.v[Op1.x] + Op1.kk) % 256
        /\ chip.pc = x1.pc + 2
        /\ \A r \in DOMAIN chip.v : r # Op1.x => chip.v[r] = x1.v[r]
        /\ SameISp(chip, x1)

\* C9 witness: an ADD Vx,kk whose sum wrapped, on a register other than VF
C9_Witness ==
    /\ Ran("add_reg_byte")
    /\ Op1.x # 15
    /\ x1.v[Op1.x] + Op1.kk > 255
    /\ chip.v[Op1.x] = x1.v[Op1.x] + Op1.kk - 256


(***************************************************************************)
(* SpecCall: k CALLs, each to the word after it, then CALL T, a jump to    *)
(* itself where the RET comes back to, pad words (LD V0,0) and RET at T,   *)
(* stepped by the host.  The k-th program reaches its last CALL with       *)
(* SP = 2k; with k = StackSize / 2 the stack is full there and that CALL   *)
(* does nothing.                                                           *)
(***************************************************************************)
CallDepths == 0..(StackSize \div 2)
CallPads == {0, 1, 3}

CallChain(k, pad) ==
    [j \in 1..(k + pad + 3) |->
        IF j <= k THEN OpNNN(2, ProgramStart + 2 * j)
        ELSE IF j = k + 1 THEN OpNNN(2, ProgramStart + 2 * (k + pad + 2))
        ELSE IF j = k + 2 THEN OpNNN(1, ProgramStart + 2 * (k + 1))
        ELSE IF j <= k + pad + 2 THEN OpXKK(6, 0, 0)
        ELSE 238]

CallPrograms == {CallChain(k, pad) : k \in CallDepths, pad \in CallPads}

InitCall ==
    \E words \in CallPrograms, oc \in BOOLEAN : Built(Assemble(words), oc)

NextCall == Tick(StepKbds, {TRUE}, {0}, NotDue)

SpecCall == InitCall /\ [][NextCall]_vars

\* the last two calls of execute_instruction ran handler h2 and then handler h1
ExecutedPair(h2, h1) ==
    /\ last.execs = 2
    /\ x2.next_instruction.exec = h2
    /\ Executed(h1)

Op2 == x2.next_instruction.operands

\* C2: from any state with SP <= 30, CALL nnn at address a followed at once by
\* RET leaves PC = a + 2 and SP as before the CALL; the CALL stored its PC at
\* stack[SP..SP+1], added 2 to SP and jumped to nnn, the RET left the stack as
\* it was.
C2_CallRet ==
    (ExecutedPair("call_addr", "ret") /\ x2.sp <= 30) =>
        /\ ~chip.panic
        /\ x1.sp = x2.sp + 2
        /\ x1.pc = Op2.nnn
        /\ read16(x1.stack, x2.sp) = [ok |-> TRUE, val |-> x2.pc]
        /\ chip.pc = x2.pc + 2
        /\ chip.sp = x2.sp
        /\ chip.stack = x1.stack

\* C2 witness: CALL with SP = 30, the last slot of the stack, then RET
C2_Witness ==
    /\ ExecutedPair("call_addr", "ret")
    /\ ~chip.panic
    /\ x2.sp = 30
    /\ chip.sp = 30
    /\ chip.pc = x2.pc + 2
    /\ x1.pc > x2.pc + 2


(***************************************************************************)
(* SpecDrw: programs                                                       *)
(*     LD V2,FF ; LD Vx,a ; LD Vy,b ; LD I,addr ; DRW Vx,Vy,n (once or     *)
(*     twice) ; CLS                                                        *)
(* stepped by the host.  The second byte of the first word is a sprite row *)
(* FF at ProgramStart + 1; address 0 is the font's "0", 768 is empty RAM   *)
(* and 4095 the last byte of RAM, after which the sprite read fails.       *)
(***************************************************************************)
DrwRegs == {<<0, 1>>, <<3, 3>>}
DrwXs == {0, 60, 255}
DrwYs == {0, 31, 255}
DrwAddrs == {0, ProgramStart + 1, 768, RamSize - 1}
DrwHeights == {0, 1, 5, 15}

DrwProgram(xy, a, b, addr, n, reps) ==
    <<OpXKK(6, 2, 255), OpXKK(6, xy[1], a), OpXKK(6, xy[2], b), OpNNN(10, addr)>>
    \o [j \in 1..reps |-> OpXYN(13, xy[1], xy[2], n)]
    \o <<224>>

DrwPrograms ==
    {DrwProgram(xy, a, b, addr, n, reps) :
        xy \in DrwRegs, a \in DrwXs, b \in DrwYs, addr \in DrwAddrs,
        n \in DrwHeights, reps \in {1, 2}}

InitDrw ==
    \E words \in DrwPrograms, oc \in BOOLEAN : Built(Assemble(words), oc)

NextDrw == Tick(StepKbds, {TRUE}, {0}, NotDue)

SpecDrw == InitDrw /\ [][NextDrw]_vars

Cells == 0..(ScreenWidth * ScreenHeight - 1)

Blank(screen) == \A cell \in Cells : At(screen, cell) = 0

\* the rows of the sprite a DRW of machine m reads: RAM[I .. I + n - 1]
SpriteRows(m, o) ==
    [row \in 0..(o.nibble - 1) |->
        IF m.i + row < len(m.ram) THEN At(m.ram, m.i + row) ELSE 0]

SpriteHasBit(m, o) == \E row \in DOMAIN SpriteRows(m, o) : SpriteRows(m, o)[row] # 0

\* C3: (a) on a blank display DRW of the one row FF with Vx = 60, Vy = 0 sets
\* exactly row 0, columns 60..63 and 0..3; (b) for any sprite, position and
\* height (x, y other than F, same sprite bytes) the same DRW executed twice in
\* a row completes both times and restores the display, the second draw setting
\* VF = 1 when the display was blank before the first and the sprite has a set
\* bit.
C3_DrawTwice ==
    /\ (Executed("drw_reg_reg_nibble") /\ Op1.x # 15 /\ Op1.y # 15) => ~chip.panic
    /\ (/\ Executed("drw_reg_reg_nibble")
        /\ Blank(x1.screen)
        /\ Op1.nibble = 1 /\ SpriteRows(x1, Op1) = (0 :> 255)
        /\ Op1.x # 15 /\ Op1.y # 15
        /\ x1.v[Op1.x] = 60 /\ x1.v[Op1.y] = 0)
       => \A cell \in Cells :
              At(chip.screen, cell) =
                  (IF cell \in {60, 61, 62, 63, 0, 1, 2, 3} THEN 1 ELSE 0)
    /\ (/\ ExecutedPair("drw_reg_reg_nibble", "drw_reg_reg_nibble")
        /\ x2.next_instruction.instruction = x1.next_instruction.instruction
        /\ Op1.x # 15 /\ Op1.y # 15
        /\ SpriteRows(x2, Op2) = SpriteRows(x1, Op1))
       => /\ chip.screen = x2.screen
          /\ (Blank(x2.screen) /\ SpriteHasBit(x2, Op2)) => chip.v[15] = 1

\* C7: the word 00E0 decodes to the clear-screen handler with disassembly ending
\* in "CLS"; executing it zeroes all 2048 display cells, calls the clear callback
\* once and no other callback, adds 2 to PC and leaves V0..VF, I, SP, RAM and
\* stack as they were.
C7_Cls ==
    /\ \A ins \in {chip.next_instruction, decode_instruction(224, chip.pc)} :
           ins.instruction = 224 =>
               /\ ins.exec = "clean_screen"
               /\ ins.disassembled # <<>>
               /\ ins.disassembled[Len(ins.disassembled)] = "CLS"
    /\ Executed("clean_screen") =>
           /\ ~chip.panic
           /\ len(chip.screen) = ScreenWidth * ScreenHeight
           /\ Blank(chip.screen)
           /\ chip.calls = << <<"clear_pixel">> >>
           /\ chip.pc = x1.pc + 2
           /\ chip.v = x1.v
           /\ SameISp(chip, x1)
           /\ chip.ram = x1.ram
           /\ chip.stack = x1.stack

\* C7 witness: a CLS executed on a display with lit cells
C7_Witness ==
    /\ Ran("clean_screen")
    /\ x1.next_instruction.instruction = 224
    /\ ~Blank(x1.screen)
    /\ Blank(chip.screen)
    /\ Len(chip.calls) = 1


(***************************************************************************)
(* SpecKey: programs  LD V0,d ; LD DT,V0 ; LD ST,V0 ; LD Vx,K  stepped by  *)
(* the host while CHIP-8 keys 2 ("2") and F ("v") go down and up, with the *)
(* timers due or not at each execution.                                    *)
(***************************************************************************)
KeyRegs == {0, 5, 15}
KeyDelays == {0, 2}
KeyKbds == {{}, {"n"}, {"n", "2", "v"}}
KeyDues == {<<FALSE, FALSE>>, <<TRUE, FALSE>>, <<TRUE, TRUE>>}

KeyPrograms ==
    {<<OpXKK(6, 0, d), OpXKK(15, 0, 21), OpXKK(15, 0, 24), OpXKK(15, x, 10)>> :
        d \in KeyDelays, x \in KeyRegs}

InitKey ==
    \E words \in KeyPrograms, oc \in BOOLEAN : Built(Assemble(words), oc)

NextKey == Tick(KeyKbds, {TRUE}, {0}, KeyDues)

SpecKey == InitKey /\ [][NextKey]_vars

PressedKeys(m) == {k \in DOMAIN m.keys : m.keys[k]}

\* what LD Vx,K does with PC, V0..VF, I and SP
KeyWait ==
    IF PressedKeys(x1) = {}
    THEN /\ chip.pc = x1.pc
         /\ chip.v = x1.v
         /\ SameISp(chip, x1)
    ELSE /\ chip.v[Op1.x] \in PressedKeys(x1)
         /\ \A k \in PressedKeys(x1) : chip.v[Op1.x] <= k
         /\ chip.pc = x1.pc + 2

\* C4 as stated: while no key flag is set every execution of LD Vx,K leaves PC,
\* Vx and all other registers (DT and ST among them) unchanged; with a key flag
\* set Vx receives the lowest-numbered pressed key and PC increases by 2.
C4_KeyWaitAllRegisters ==
    Executed("ld_reg_k") =>
        /\ ~chip.panic
        /\ KeyWait
        /\ PressedKeys(x1) = {} => (chip.dt = x1.dt /\ chip.st = x1.st)

\* C4 amended: while no key flag is set every execution of LD Vx,K leaves PC,
\* V0..VF, I and SP unchanged, DT and ST each keeping their value or losing 1 to
\* the timer step of execute_instruction; with a key flag set Vx receives the
\* lowest-numbered pressed key and PC increases by 2.
C4_KeyWait ==
    Executed("ld_reg_k") =>
        /\ ~chip.panic
        /\ KeyWait
        /\ chip.dt \in {x1.dt, x1.dt - 1} /\ chip.dt >= 0
        /\ chip.st \in {x1.st, x1.st - 1} /\ chip.st >= 0

\* C4 witness: LD Vx,K executed with no key down, DT decaying meanwhile, and
\* executed again at the same PC with keys 2 and F down: Vx = 2, PC moves on
C4_Witness ==
    /\ ExecutedPair("ld_reg_k", "ld_reg_k")
    /\ ~chip.panic
    /\ PressedKeys(x2) = {}
    /\ x1.pc = x2.pc
    /\ x1.dt = x2.dt - 1
    /\ PressedKeys(x1) = {2, 15}
    /\ chip.v[Op1.x] = 2
    /\ chip.pc = x1.pc + 2


(***************************************************************************)
(* SpecHost: the host tick with every control key: "p" toggles automatic   *)
(* running, "n" steps, space pauses and resumes; a tick may come before    *)
(* 1/500 s has passed since the last execution; the timers are due at      *)
(* every execution.  Programs:                                             *)
(*     LD V0,2 ; LD DT,V0 ; CLS ; JP 516       a loop with DT running down *)
(*     LD V0,1 ; JP 4095                       PC leaves the fetchable RAM *)
(*     LD V1,K                                 a wait that is re-executed  *)
(***************************************************************************)
HostKbds == SUBSET {"p", "n", " "}
AlwaysDue == {<<TRUE, TRUE>>}

HostPrograms ==
    {<<OpXKK(6, 0, 2), OpXKK(15, 0, 21), 224, OpNNN(1, ProgramStart + 4)>>,
     <<OpXKK(6, 0, 1), OpNNN(1, RamSize - 1)>>,
     <<OpXKK(15, 1, 10)>>}

InitHost ==
    \E words \in HostPrograms, oc \in BOOLEAN : Built(Assemble(words), oc)

NextHost == Tick(HostKbds, BOOLEAN, {0}, AlwaysDue)

SpecHost == InitHost /\ [][NextHost]_vars

\* C5: the engine alternates between fetch-pending (need_to_fetch, no decode
\* since the last execution) and ready (one decode since the last execution);
\* every call of execute_instruction is preceded, since the previous one, by
\* exactly one successful fetch and decode, of the word at the PC it runs at,
\* and leaves the engine fetch-pending again.
C5_FetchDecodeExecute ==
    /\ chip.need_to_fetch <=> last.decodes = 0
    /\ ~chip.need_to_fetch <=> last.decodes = 1
    /\ last.executed =>
           /\ last.decodes_at_exec = 1
           /\ ~x1.need_to_fetch
           /\ x1.next_instruction.pc = x1.pc
           /\ read16(x1.ram, x1.pc) =
                  [ok |-> TRUE, val |-> x1.next_instruction.instruction]
           /\ x1.next_instruction =
                  decode_instruction(x1.next_instruction.instruction, x1.pc)
           /\ chip.need_to_fetch

\* C5 witness: the same LD Vx,K word executed twice running, fetched and decoded
\* anew for the second execution
C5_Witness ==
    /\ ExecutedPair("ld_reg_k", "ld_reg_k")
    /\ x1.pc = x2.pc
    /\ last.decodes_at_exec = 1
    /\ chip.need_to_fetch

\* what a tick that does not execute leaves alone
SameMachine(a, b) ==
    /\ a.pc = b.pc /\ a.v = b.v /\ a.i = b.i /\ a.sp = b.sp
    /\ a.dt = b.dt /\ a.st = b.st
    /\ a.ram = b.ram /\ a.stack = b.stack /\ a.screen = b.screen

\* C6: the engine starts paused, and a host tick at which is_paused() holds
\* after key handling executes nothing: PC, V0..VF, I, SP, DT, ST, RAM, stack and
\* display are the same before and after the tick.
C6_PausedTick ==
    /\ chip.paused
    /\ [][chip'.paused => (~last'.executed /\ SameMachine(chip', chip))]_vars

\* C6 witness: a paused tick that fetched and decoded CLS with DT above 0 and
\* lit nothing, cleared nothing and left DT alone although it was due
C6_Witness ==
    /\ last.op = "tick"
    /\ chip.paused
    /\ last.fetched
    /\ ~last.executed
    /\ chip.next_instruction.exec = "clean_screen"
    /\ chip.dt > 0
    /\ last.execs = 2


(***************************************************************************)
(* SpecBcd: programs  LD I,addr ; LD Vx,v ; LD B,Vx  for every byte v,     *)
(* stepped by the host.  Address 0 is the font, 768 empty RAM, 4093 the    *)
(* last address with I + 2 inside RAM and 4094 the first with I + 2        *)
(* outside.                                                                *)
(***************************************************************************)
BcdRegs == {0, 15}
BcdAddrs == {0, 768, RamSize - 3, RamSize - 2}

BcdPrograms ==
    {<<OpNNN(10, addr), OpXKK(6, x, v), OpXKK(15, x, 51)>> :
        addr \in BcdAddrs, x \in BcdRegs, v \in Byte}

InitBcd ==
    \E words \in BcdPrograms, oc \in BOOLEAN : Built(Assemble(words), oc)

NextBcd == Tick(StepKbds, {TRUE}, {0}, NotDue)

SpecBcd == InitBcd /\ [][NextBcd]_vars

\* vectors a and b hold the same byte at every address outside S (an address in
\* neither nz holds 0 in both)
SameBytesExcept(a, b, S) ==
    /\ len(a) = len(b)
    /\ \A k \in ((DOMAIN a.nz) \cup (DOMAIN b.nz)) \ S : At(a, k) = At(b, k)

\* C8: for every byte v of Vx and every I with I + 2 inside RAM, LD B,Vx writes
\* floor(v / 100) at RAM[I], floor(v / 10) mod 10 at RAM[I+1] and v mod 10 at
\* RAM[I+2], changes no other RAM byte, leaves I and V0..VF unchanged and adds 2
\* to PC.
C8_Bcd ==
    (Executed("ld_b_reg") /\ x1.i + 2 < len(x1.ram)) =>
        LET v == x1.v[Op1.x]
        IN  /\ ~chip.panic
            /\ At(chip.ram, x1.i) = v \div 100
            /\ At(chip.ram, x1.i + 1) = (v \div 10) % 10
            /\ At(chip.ram, x1.i + 2) = v % 10
            /\ SameBytesExcept(chip.ram, x1.ram, {x1.i, x1.i + 1, x1.i + 2})
            /\ chip.i = x1.i
            /\ chip.v = x1.v
            /\ chip.pc = x1.pc + 2

\* C8 witness: 157 stored as 1, 5, 7 in the last three bytes of RAM
C8_Witness ==
    /\ Ran("ld_b_reg")
    /\ x1.v[Op1.x] = 157
    /\ x1.i = RamSize - 3
    /\ At(chip.ram, x1.i) = 1
    /\ At(chip.ram, x1.i + 1) = 5
    /\ At(chip.ram, x1.i + 2) = 7

(***************************************************************************)
(* SpecMem: one Memory of MemLen bytes with any content over MemOld, and   *)
(* one call of write8_range on it with any start and end up to one past    *)
(* the length and any content of up to MaxContent bytes over MemNew.       *)
(* memop records the call: its arguments, its Result and the vector        *)
(* before it.                                                              *)
(***************************************************************************)
MemLen == 3
MaxContent == 3
MemOld == {0, 7}
MemNew == {1, 255}

RECURSIVE SeqsUpTo(_, _)
SeqsUpTo(S, n) ==
    IF n = 0 THEN {<<>>}
    ELSE LET shorter == SeqsUpTo(S, n - 1)
         IN  shorter \cup {Append(q, e) : q \in shorter, e \in S}

\* the Memory whose bytes are those of the sequence q
MemoryOf(q) == write8_range(MemoryNew(Len(q) + 1), 0, Len(q), q).data

InitMem ==
    /\ chip = build(<<>>, FALSE).chip
    /\ host = HostInit
    /\ last = LastInit
    /\ x1 = chip
    /\ x2 = chip
    /\ \E q \in [1..MemLen -> MemOld] :
           mem = [MemoryOf(q) EXCEPT !.size = MemLen]
    /\ memop = [op |-> "none"]

WriteRange ==
    /\ memop.op = "none"
    /\ \E start \in 0..(MemLen + 1), end \in 0..(MemLen + 1),
          content \in SeqsUpTo(MemNew, MaxContent) :
          LET w == write8_range(mem, start, end, content)
          IN  /\ mem' = w.data
              /\ memop' = [op |-> "write8_range", start |-> start, end |-> end,
                           content |-> content, ok |-> w.ok, before |-> mem]
    /\ UNCHANGED <<chip, host, last, x1, x2>>

NextMem == WriteRange

SpecMem == InitMem /\ [][NextMem]_vars

\* C10: after a successful write_range(start, end, bytes) with
\* len(bytes) = end - start, read8(start + i) returns bytes[i] for every
\* i in 0..end-start-1 and every byte outside [start, end) is unchanged.
C10_RoundTrip ==
    (/\ memop.op = "write8_range"
     /\ memop.ok
     /\ Len(memop.content) = memop.end - memop.start)
    => /\ \A i \in 0..(memop.end - memop.start - 1) :
              read8(mem, memop.start + i) =
                  [ok |-> TRUE, val |-> memop.content[i + 1]]
       /\ len(mem) = len(memop.before)
       /\ \A a \in 0..(len(mem) - 1) :
              (a < memop.start \/ a >= memop.end) =>
                  At(mem, a) = At(memop.before, a)

\* C10 witness: two bytes written over different ones at the start of a vector
\* whose last byte is not zero and stays
C10_Witness ==
    /\ memop.op = "write8_range"
    /\ memop.ok
    /\ memop.start = 0
    /\ memop.end = 2
    /\ memop.content = <<255, 1>>
    /\ Bytes(memop.before) = (0 :> 7 @@ 1 :> 0 @@ 2 :> 7)
    /\ Bytes(mem) = (0 :> 255 @@ 1 :> 1 @@ 2 :> 7)

\* C11: write8_range with start > end returns an error and leaves every byte
\* unchanged whatever the content is, and with start = end it returns success
\* and changes nothing.
C11_EmptyOrReversedRange ==
    (memop.op = "write8_range" /\ memop.start >= memop.end)
    => /\ memop.ok = (memop.start = memop.end)
       /\ mem = memop.before

\* C11 witness: a reversed range inside the vector with bytes to copy was
\* refused, and an empty range with bytes to copy was accepted
C11_Witness ==
    /\ memop.op = "write8_range"
    /\ Len(memop.content) = 2
    /\ Bytes(memop.before) = (0 :> 7 @@ 1 :> 7 @@ 2 :> 7)
    /\ \/ memop.start = 2 /\ memop.end = 0 /\ ~memop.ok
       \/ memop.start = 1 /\ memop.end = 1 /\ memop.ok

(***************************************************************************)
(* The four single accessors of Memory (memory.rs:12-63), each applied     *)
(* once to a Memory of every length up to MemLen: mem is the Memory, memop *)
(* the call and what it returned.                                          *)
(***************************************************************************)
AccOffsets == 0..(MemLen + 1) \cup {65535}
AccValues8 == {0, 1, 255}
AccValues16 == {0, 258, 65281}

InitAcc ==
    /\ chip = build(<<>>, FALSE).chip
    /\ host = HostInit
    /\ last = LastInit
    /\ x1 = chip
    /\ x2 = chip
    /\ \E L \in 0..MemLen : \E q \in [1..L -> MemOld] :
           mem = [MemoryOf(q) EXCEPT !.size = L]
    /\ memop = [op |-> "none"]

Read8 ==
    /\ memop.op = "none"
    /\ \E offset \in AccOffsets : \E r \in {read8(mem, offset)} :
           memop' = [op |-> "read8", offset |-> offset, value |-> 0,
                     ok |-> r.ok, val |-> r.val, before |-> mem]
    /\ UNCHANGED <<chip, host, last, x1, x2, mem>>

\* read16 is also called after a write16; after: the access made before it
Read16 ==
    /\ memop.op \in {"none", "write16"}
    /\ \E offset \in AccOffsets : \E r \in {read16(mem, offset)} :
           memop' = [op |-> "read16", offset |-> offset, value |-> 0,
                     ok |-> r.ok, val |-> r.val, before |-> mem,
                     after |-> memop]
    /\ UNCHANGED <<chip, host, last, x1, x2, mem>>

Write8 ==
    /\ memop.op = "none"
    /\ \E offset \in AccOffsets, value \in AccValues8 :
       \E w \in {write8(mem, offset, value)} :
           /\ mem' = w.data
           /\ memop' = [op |-> "write8", offset |-> offset, value |-> value,
                        ok |-> w.ok, val |-> 0, before |-> mem]
    /\ UNCHANGED <<chip, host, last, x1, x2>>

Write16 ==
    /\ memop.op = "none"
    /\ \E offset \in AccOffsets, value \in AccValues16 :
       \E w \in {write16(mem, offset, value)} :
           /\ mem' = w.data
           /\ memop' = [op |-> "write16", offset |-> offset, value |-> value,
                        ok |-> w.ok, val |-> 0, before |-> mem]
    /\ UNCHANGED <<chip, host, last, x1, x2>>

NextAcc == Read8 \/ Read16 \/ Write8 \/ Write16

SpecAcc == InitAcc /\ [][NextAcc]_vars

\* the number of bytes the accessor op reads or writes
AccWidth(op) == IF op \in {"read16", "write16"} THEN 2 ELSE 1

\* C12: on a Memory of length L, read8 and write8 at offset succeed exactly
\* when offset < L, and read16 and write16 exactly when offset + 1 < L; a
\* failing access returns an error and leaves every byte unchanged, and a
\* successful write changes only the byte or the two bytes it addresses.
C12_AccessBounds ==
    (memop.op \in {"read8", "read16", "write8", "write16"})
    => /\ memop.ok = (memop.offset + AccWidth(memop.op) - 1 < len(memop.before))
       /\ ~memop.ok => mem = memop.before
       /\ len(mem) = len(memop.before)
       /\ DOMAIN mem.nz \subseteq 0..(len(mem) - 1)
       /\ \A a \in 0..(len(mem) - 1) :
              (a < memop.offset \/ a >= memop.offset + AccWidth(memop.op))
                  => At(mem, a) = At(memop.before, a)

\* C12 witness: a 16-bit write at the last offset that fits has changed the
\* last two bytes of a 3-byte Memory and left the first
C12_Witness ==
    /\ memop.op = "write16"
    /\ memop.ok
    /\ memop.offset = 1
    /\ memop.value = 65281
    /\ Bytes(memop.before) = (0 :> 7 @@ 1 :> 7 @@ 2 :> 7)
    /\ Bytes(mem) = (0 :> 7 @@ 1 :> 255 @@ 2 :> 1)

\* C13: write8_range with start < end fails exactly when end exceeds the
\* length of the vector: a range ending exactly at the length (writing the
\* last byte) is accepted and written, and only end > length is rejected.
C13_EndAtLength ==
    (memop.op = "write8_range" /\ memop.start < memop.end)
    => /\ memop.ok = (memop.end <= len(memop.before))
       /\ (memop.ok /\ Len(memop.content) >= memop.end - memop.start)
              => \A a \in memop.start..(memop.end - 1) :
                     At(mem, a) = memop.content[a - memop.start + 1]

(***************************************************************************)
(* SpecStack: every program of up to StackWords words drawn from           *)
(*   CALL 0x200, CALL next word, CALL second word, RET, JP 0x200,          *)
(* stepped by the host: the calls nest until the stack is full, the        *)
(* returns unwind it, in every order.                                      *)
(***************************************************************************)
StackWords == 3

\* the word at position k (from 1) of a program: one of the five choices
StackWord(choice, k) ==
    CASE choice = "call_start" -> OpNNN(2, ProgramStart)
      [] choice = "call_next"  -> OpNNN(2, ProgramStart + 2 * k)
      [] choice = "call_second" -> OpNNN(2, ProgramStart + 2)
      [] choice = "ret"        -> 238
      [] choice = "jp_start"   -> OpNNN(1, ProgramStart)

StackChoices == {"call_start", "call_next", "call_second", "ret", "jp_start"}

StackPrograms ==
    UNION {{[k \in 1..n |-> StackWord(cs[k], k)] : cs \in [1..n -> StackChoices]} :
           n \in 1..StackWords}

\* two routines that call each other until V0 = depth and then return:
\*   0x200 ADD V0,1 ; SE V0,depth ; CALL 0x208 ; RET
\*   0x208 ADD V0,1 ; SE V0,depth ; CALL 0x200 ; RET
DeepPrograms ==
    {<<OpXKK(7, 0, 1), OpXKK(3, 0, depth), OpNNN(2, ProgramStart + 8), 238,
       OpXKK(7, 0, 1), OpXKK(3, 0, depth), OpNNN(2, ProgramStart), 238>> :
        depth \in {1, 2, 4, 16, 17, 18}}

InitStack ==
    \E words \in StackPrograms \cup DeepPrograms, oc \in BOOLEAN :
        Built(Assemble(words), oc)

NextStack == Tick(StepKbds, {TRUE}, {0}, NotDue)

SpecStack == InitStack /\ [][NextStack]_vars

\* C14: in every state reachable by executing any sequence of instructions SP
\* is even and 0 <= SP <= 32 (it never leaves the stack's span and never
\* wraps), and from SP = 0 sixteen nested CALLs all succeed, each storing its
\* return address.
C14_StackPointer ==
    /\ chip.sp % 2 = 0
    /\ 0 <= chip.sp /\ chip.sp <= StackSize
    /\ (Executed("call_addr") /\ x1.sp < StackSize)
           => /\ chip.sp = x1.sp + 2
              /\ chip.pc = Op1.nnn
              /\ read16(chip.stack, x1.sp) = [ok |-> TRUE, val |-> x1.pc]
              /\ \A a \in 0..(StackSize - 1) :
                     (a < x1.sp \/ a > x1.sp + 1)
                         => At(chip.stack, a) = At(x1.stack, a)

(***************************************************************************)
(* SpecTimer: programs  LD V0,d ; LD DT,V0 ; LD V1,e ; LD ST,V1 ;          *)
(*                      LD V2,DT ; LD DT,V0 ; JP self                      *)
(* stepped by the host, each of the two 1/60 s tests passing or failing    *)
(* at every execution.                                                     *)
(***************************************************************************)
TimerValues == {0, 1, 2}

\* <<dt_due, st_due>>: each test on its own
AnyDue == BOOLEAN \X BOOLEAN

TimerPrograms ==
    {<<OpXKK(6, 0, d), OpXKK(15, 0, 21), OpXKK(6, 1, e), OpXKK(15, 1, 24),
       OpXKK(15, 2, 7), OpXKK(15, 0, 21), OpNNN(1, ProgramStart + 12)>> :
        d \in TimerValues, e \in TimerValues}

InitTimer ==
    \E words \in TimerPrograms, oc \in BOOLEAN : Built(Assemble(words), oc)

NextTimer == Tick(StepKbds, {TRUE}, {0}, AnyDue)

SpecTimer == InitTimer /\ [][NextTimer]_vars

\* DT as the handler of the executed instruction left it
HandlerDt ==
    IF x1.next_instruction.exec = "ld_dt_reg" THEN x1.v[Op1.x] ELSE x1.dt

\* ST as the handler of the executed instruction left it
HandlerSt ==
    IF x1.next_instruction.exec = "ld_st_reg" THEN x1.v[Op1.x] ELSE x1.st

\* C15: in each call of execute_instruction, after the handler has run, DT
\* (and, independently, ST) is decremented by exactly 1 if at least 1/60 s has
\* passed since that timer's last-decrement instant and its value is > 0, and
\* is otherwise left as the handler set it; a timer never goes down by more
\* than 1 in a call and never below 0; its last-decrement instant is reset
\* exactly when the 1/60 s threshold was reached.
C15_TimerDecay ==
    (last.executed /\ ~chip.panic)
    => /\ chip.dt = (IF last.dt_due /\ HandlerDt > 0 THEN HandlerDt - 1
                     ELSE HandlerDt)
       /\ chip.st = (IF last.st_due /\ HandlerSt > 0 THEN HandlerSt - 1
                     ELSE HandlerSt)
       /\ chip.dt \in 0..HandlerDt /\ HandlerDt - chip.dt <= 1
       /\ chip.st \in 0..HandlerSt /\ HandlerSt - chip.st <= 1
       /\ (chip.dt_instant # x1.dt_instant) = last.dt_due
       /\ (chip.st_instant # x1.st_instant) = last.st_due

\* C15 witness: LD DT,V0 with V0 = 2 ran while only the delay timer's test
\* passed: DT is 1, ST keeps its 2, only DT's instant is new
C15_Witness ==
    /\ Ran("ld_dt_reg")
    /\ x1.v[0] = 2
    /\ x1.dt = 0
    /\ x1.st = 2
    /\ last.dt_due /\ ~last.st_due
    /\ chip.dt = 1
    /\ chip.st = 2
    /\ chip.dt_instant # x1.dt_instant
    /\ chip.st_instant = x1.st_instant

(***************************************************************************)
(* SpecUnknown: programs  LD V1,7 ; LD I,0x123 ; w  for words w of every   *)
(* decoding class: every low nibble of 8xyN, every low byte of Exkk and    *)
(* Fxkk, several 0nnn, and one word of each other leading nibble.  The     *)
(* bytes after the program are zero (the word 0000).                       *)
(***************************************************************************)
UnknownWords ==
    {OpNNN(0, nnn) : nnn \in {0, 224, 225, 238, 239, 291, 480, 494, 4095}}
    \cup {OpXYN(8, x, y, n) : x \in {1}, y \in {0, 15}, n \in 0..15}
    \cup {OpXKK(top, 1, kk) : top \in {14, 15}, kk \in 0..255}
    \cup {OpNNN(top, 520) : top \in {1, 2, 3, 4, 5, 6, 7, 9, 10, 11, 12, 13}}

UnknownPrograms == {<<OpXKK(6, 1, 7), OpNNN(10, 291), w>> : w \in UnknownWords}

InitUnknown ==
    \E words \in UnknownPrograms, oc \in BOOLEAN : Built(Assemble(words), oc)

NextUnknown == Tick(StepKbds, {TRUE}, {0}, NotDue)

SpecUnknown == InitUnknown /\ [][NextUnknown]_vars

\* the opcodes that have no handler: 0nnn other than 00E0 and 00EE, 8xyN with
\* N in {8,9,A,B,C,D,F}, Exkk other than Ex9E and ExA1, Fxkk with kk outside
\* {07,0A,15,18,1E,29,33,55,65}
Unbound(w) ==
    LET top == w \div 4096
        kk == w % 256
    IN  \/ top = 0 /\ w \notin {224, 238}
        \/ top = 8 /\ (w % 16) \in {8, 9, 10, 11, 12, 13, 15}
        \/ top = 14 /\ kk \notin {158, 161}
        \/ top = 15 /\ kk \notin {7, 10, 21, 24, 30, 41, 51, 85, 101}

\* C16: an opcode with no bound handler executes as a logging no-op: PC,
\* V0..VF, I, SP, RAM, stack, display and keys are unchanged by its handler and
\* no callback is invoked, so the next fetch reads the same word at the same PC.
C16_UnknownOpcode ==
    /\ last.execs >= 1
           => (x1.next_instruction.exec = "unknown_instruction")
                  = Unbound(x1.next_instruction.instruction)
    /\ (last.executed /\ Unbound(x1.next_instruction.instruction))
           => /\ ~chip.panic
              /\ chip.pc = x1.pc /\ chip.v = x1.v /\ chip.i = x1.i
              /\ chip.sp = x1.sp /\ chip.ram = x1.ram
              /\ chip.stack = x1.stack /\ chip.screen = x1.screen
              /\ chip.keys = x1.keys
              /\ chip.calls = <<>>
    /\ (last.execs >= 1 /\ Unbound(x1.next_instruction.instruction)
            /\ last.fetched /\ ~last.executed)
           => /\ chip.next_instruction.pc = x1.next_instruction.pc
              /\ chip.next_instruction.instruction = x1.next_instruction.instruction
    /\ (last.execs = 2 /\ Unbound(x2.next_instruction.instruction))
           => /\ x1.next_instruction.pc = x2.next_instruction.pc
              /\ x1.next_instruction.instruction = x2.next_instruction.instruction

\* C16 witness: 81FF has been executed twice in a row at the same address
\* with V1 and I as the program had set them, and fetched again
C16_Witness ==
    /\ last.execs = 2
    /\ last.fetched /\ ~last.executed
    /\ x2.next_instruction.instruction = OpXYN(8, 1, 15, 15)
    /\ x1.next_instruction.instruction = OpXYN(8, 1, 15, 15)
    /\ chip.next_instruction.instruction = OpXYN(8, 1, 15, 15)
    /\ chip.next_instruction.pc = ProgramStart + 4
    /\ chip.pc = ProgramStart + 4
    /\ chip.v[1] = 7
    /\ chip.i = 291

\* the callbacks a draw owes to the cells whose value went from `from` to
\* the other value between the displays before and after
PixelCalls(name, before, after, from) ==
    {<<name, cell % ScreenWidth, cell \div ScreenWidth>> :
        cell \in {c \in Cells : At(before, c) = from /\ At(after, c) = 1 - from}}

\* C17: during DRW the set-pixel callback is invoked exactly for the cells that
\* change from 0 to 1 and the unset-pixel callback exactly for the cells that
\* change from 1 to 0; no callback is invoked for a cell whose sprite bit is 0
\* (the XOR leaves it as it was).
C17_PixelCallbacks ==
    Ran("drw_reg_reg_nibble")
    => /\ {chip.calls[k] : k \in DOMAIN chip.calls}
              = PixelCalls("set_pixel", x1.screen, chip.screen, 0)
                    \cup PixelCalls("unset_pixel", x1.screen, chip.screen, 1)
       /\ \A j, k \in DOMAIN chip.calls : chip.calls[j] = chip.calls[k] => j = k

(***************************************************************************)
(* SpecEdge: programs that take the handlers to the ends of their ranges,  *)
(* stepped by the host.                                                    *)
(*   EdgeMemory:  LD I,addr ; LD V0,a ; LD [I],V0 ; LD V0,c ; LD V1,b ;    *)
(*                LD VF,1 ; op          with addr in the last bytes of RAM *)
(*                and op one of DRW V0,V1,2 / LD B,V0 / LD [I],V1 /        *)
(*                LD V1,[I];                                               *)
(*   EdgeOperand: LD V0,a ; LD V1,b ; op     with op one of SUBN V0,V1 /   *)
(*                SKP V0 / SKNP V0 / RET;                                  *)
(*   EdgeIndex:   a loop of ADD I,V0 taking I from 0xFFF to 0xFFFF, then   *)
(*                op, one of ADD I,V0 / LD B,V0 / LD [I],V1 / DRW V0,V1,1. *)
(***************************************************************************)
EdgeAddrs == {RamSize - 3, RamSize - 2, RamSize - 1}
EdgeSprites == {0, 129}
EdgeXs == {3, 250}
EdgeMemoryOps == {OpXYN(13, 0, 1, 2), OpXKK(15, 0, 51), OpXKK(15, 1, 85),
                  OpXKK(15, 1, 101)}

EdgeMemory ==
    {<<OpNNN(10, addr), OpXKK(6, 0, a), OpXKK(15, 0, 85), OpXKK(6, 0, c),
       OpXKK(6, 1, 5), OpXKK(6, 15, 1), op>> :
        addr \in EdgeAddrs, a \in EdgeSprites, c \in EdgeXs, op \in EdgeMemoryOps}

EdgeOperandOps == {OpXYN(8, 0, 1, 7), OpXKK(14, 0, 158), OpXKK(14, 0, 161), 238}

EdgeOperand ==
    {<<OpXKK(6, 0, a), OpXKK(6, 1, b), op>> :
        a \in {0, 15, 16, 200}, b \in {0, 100}, op \in EdgeOperandOps}

EdgeIndexOps == {OpXKK(15, 0, 30), OpXKK(15, 0, 51), OpXKK(15, 1, 85),
                 OpXYN(13, 0, 1, 1)}

\* 0xFFF + 240 * 255 + 240 = 0xFFFF
EdgeIndex ==
    {<<OpXKK(6, 0, 255), OpNNN(10, RamSize - 1),
       OpXKK(15, 0, 30), OpXKK(7, 1, 1), OpXKK(3, 1, 240), OpNNN(1, ProgramStart + 4),
       OpXKK(6, 0, 240), OpXKK(15, 0, 30), op>> : op \in EdgeIndexOps}

InitEdge ==
    \E words \in EdgeMemory \cup EdgeOperand \cup EdgeIndex, oc \in BOOLEAN :
        Built(Assemble(words), oc)

NextEdge == Tick(StepKbds, {TRUE}, {0}, NotDue)

SpecEdge == InitEdge /\ [][NextEdge]_vars

\* PC after the handler named exec with operands o has run on machine m, as
\* the handlers are meant to leave it
UpdatedPc(exec, o, m) ==
    CASE exec \in {"jp_addr", "call_addr"} -> o.nnn
      [] exec = "jp_v0_addr" -> o.nnn + m.v[0]
      [] exec = "ret" -> read16(m.stack, m.sp - 2).val + 2
      [] exec = "se_reg_byte" -> m.pc + (IF m.v[o.x] = o.kk THEN 4 ELSE 2)
      [] exec = "sne_reg_byte" -> m.pc + (IF m.v[o.x] # o.kk THEN 4 ELSE 2)
      [] exec = "se_reg_reg" -> m.pc + (IF m.v[o.x] = m.v[o.y] THEN 4 ELSE 2)
      [] exec = "sne_reg_reg" -> m.pc + (IF m.v[o.x] # m.v[o.y] THEN 4 ELSE 2)
      [] exec = "skp_reg" ->
             m.pc + (IF m.v[o.x] < NumKeys /\ m.keys[m.v[o.x]] THEN 4 ELSE 2)
      [] exec = "sknp_reg" ->
             m.pc + (IF m.v[o.x] < NumKeys /\ m.keys[m.v[o.x]] THEN 2 ELSE 4)
      [] OTHER -> m.pc + 2

\* C18: every execution of a recognised opcode, other than LD Vx,K with no key
\* down, updates PC itself: a handler that is not control flow adds 2, a
\* conditional skip adds 4 when its condition holds and 2 otherwise, JP and
\* CALL set PC to nnn, JP V0 to nnn + V0, RET to the popped address + 2; no
\* recognised handler returns with PC untouched.
C18_PcUpdated ==
    (/\ last.executed
     /\ x1.next_instruction.exec # "unknown_instruction"
     /\ ~(x1.next_instruction.exec = "ld_reg_k" /\ PressedKeys(x1) = {}))
    => /\ ~chip.panic
       /\ chip.pc = UpdatedPc(x1.next_instruction.exec, Op1, x1) % 65536

\* a memory access of the handler named exec, run with operands o on machine
\* m, is out of bounds: a sprite row of DRW, a digit of LD B, a register of
\* LD [I],Vx or LD Vx,[I] at I + offset >= 4096, or the return address of CALL
\* on a full stack
AccessFails(exec, o, m) ==
    CASE exec = "drw_reg_reg_nibble" -> o.nibble >= 1 /\ m.i + o.nibble - 1 >= len(m.ram)
      [] exec = "ld_b_reg" -> m.i + 2 >= len(m.ram)
      [] exec \in {"ld_to_i_reg", "ld_reg_from_i"} -> m.i + o.x >= len(m.ram)
      [] exec = "call_addr" -> m.sp + 1 >= len(m.stack)
      [] OTHER -> FALSE

\* C19: when a memory access inside a handler fails out of bounds the step is
\* aborted without corrupting other state: RAM, stack, V0..VF, I, SP and the
\* display are the same as before the step.
C19_FailedAccess ==
    (last.executed /\ AccessFails(x1.next_instruction.exec, Op1, x1))
    => /\ ~chip.panic
       /\ chip.ram = x1.ram
       /\ chip.stack = x1.stack
       /\ chip.v = x1.v
       /\ SameISp(chip, x1)
       /\ chip.screen = x1.screen

\* C20: no single instruction halts the machine: from every reachable state
\* and for every 16-bit opcode execute_instruction completes without aborting
\* the process; in particular RET with SP = 0, SUBN with Vy < Vx, DRW with
\* Vx > 248, SKP/SKNP with Vx > 15, and ADD I,Vx / LD B / LD [I],Vx / DRW with
\* I close to 0xFFFF all return normally.
C20_NoAbort == ~chip.panic

(***************************************************************************)
(* SpecBuild: Chip8::build called once on a program file: every content of *)
(* up to MaxContent bytes, and contents that end just before, at and just  *)
(* after the last byte of RAM or pass the 16-bit range.  memop is the call *)
(* and what it returned; chip is the engine it returned, if any.           *)
(***************************************************************************)
BuildBytes == {0, 1, 128, 255}
BuildLengths == {RamSize - ProgramStart - 1, RamSize - ProgramStart,
                 RamSize - ProgramStart + 1, 65536 - ProgramStart}

BuildContents ==
    SeqsUpTo(BuildBytes, MaxContent)
    \cup {[k \in 1..n |-> 1 + (k % 255)] : n \in BuildLengths}

InitBuild ==
    /\ chip = build(<<>>, FALSE).chip
    /\ host = HostInit
    /\ last = LastInit
    /\ x1 = chip
    /\ x2 = chip
    /\ mem = <<>>
    /\ memop = [op |-> "none"]

Construct ==
    /\ memop.op = "none"
    /\ \E content \in BuildContents, oc \in BOOLEAN :
       \E b \in {build(content, oc)} :
           /\ chip' = IF b.ok THEN b.chip ELSE chip
           /\ memop' = [op |-> "build", content |-> content,
                        overflow_checks |-> oc, ok |-> b.ok]
    /\ UNCHANGED <<host, last, x1, x2, mem>>

NextBuild == Construct

SpecBuild == InitBuild /\ [][NextBuild]_vars

\* the RAM byte at address a after construction with the program `content`
BuiltByte(content, a) ==
    IF a < Len(sprites) THEN sprites[a + 1]
    ELSE IF a >= ProgramStart /\ a < ProgramStart + Len(content)
         THEN content[a - ProgramStart + 1]
         ELSE 0

\* C21: after construction with a program of n bytes, RAM[0x200 + i] is
\* program byte i for every i < n, RAM[0..80) holds the font table, every other
\* RAM byte is 0, PC = 0x200, SP = 0 and V0..VF, I, DT, ST, display and keys
\* are all zero / clear; construction succeeds for every program that fits in
\* RAM from 0x200 to 0xFFF (0 <= n <= 3584, n = 0 and n = 3584 included).
C21_Construction ==
    (memop.op = "build")
    => /\ Len(memop.content) <= RamSize - ProgramStart => memop.ok
       /\ memop.ok =>
              /\ len(chip.ram) = RamSize
              /\ \A a \in 0..(RamSize - 1) :
                     At(chip.ram, a) = BuiltByte(memop.content, a)
              /\ chip.pc = ProgramStart /\ chip.sp = 0 /\ chip.i = 0
              /\ chip.dt = 0 /\ chip.st = 0
              /\ \A r \in 0..(NumRegs - 1) : chip.v[r] = 0
              /\ Blank(chip.screen)
              /\ PressedKeys(chip) = {}

(***************************************************************************)
(* SpecSetters: the host calls set_key_pressed and set_register_value on a *)
(* freshly built engine, any number of times, with indices inside and      *)
(* outside 0..15.  memop is the last call, what it returned and the engine *)
(* before it.                                                              *)
(***************************************************************************)
SetterIndices == {0, 5, 15, 16, 255}
SetterValues == {0, 7, 255}

InitSetters == Built(<<>>, FALSE)

SetKeyPressed ==
    /\ \E index \in SetterIndices, value \in BOOLEAN :
           /\ chip' = set_key_pressed(chip, index, value)
           /\ memop' = [op |-> "set_key_pressed", index |-> index,
                        value |-> value, ok |-> TRUE, before |-> chip]
    /\ UNCHANGED <<host, last, x1, x2, mem>>

SetRegisterValue ==
    /\ \E index \in SetterIndices, value \in SetterValues :
       \E r \in {set_register_value(chip, index, value)} :
           /\ chip' = r.chip
           /\ memop' = [op |-> "set_register_value", index |-> index,
                        value |-> value, ok |-> r.ok, before |-> chip]
    /\ UNCHANGED <<host, last, x1, x2, mem>>

NextSetters == SetKeyPressed \/ SetRegisterValue

SpecSetters == InitSetters /\ [][NextSetters]_vars

\* C22: the host setters reject out-of-range indices without changing state:
\* set_key_pressed(index, v) with index > 15 changes no key flag and reports no
\* error, set_register_value(index, v) with index > 15 returns an error and
\* changes no register; with index in 0..15 each changes exactly the addressed
\* key flag / V register and nothing else.
C22_Setters ==
    /\ (memop.op = "set_key_pressed")
       => /\ memop.ok
          /\ \A k \in 0..(NumKeys - 1) :
                 chip.keys[k] = (IF k = memop.index THEN memop.value
                                 ELSE memop.before.keys[k])
          /\ DOMAIN chip.keys = 0..(NumKeys - 1)
          /\ [chip EXCEPT !.keys = memop.before.keys] = memop.before
    /\ (memop.op = "set_register_value")
       => /\ memop.ok = (memop.index <= 15)
          /\ \A r \in 0..(NumRegs - 1) :
                 chip.v[r] = (IF r = memop.index THEN memop.value
                              ELSE memop.before.v[r])
          /\ DOMAIN chip.v = 0..(NumRegs - 1)
          /\ [chip EXCEPT !.v = memop.before.v] = memop.before

\* C22 witness: with key 5 down and V15 = 7, set_key_pressed(16, TRUE) has
\* changed nothing
C22_Witness ==
    /\ memop.op = "set_key_pressed"
    /\ memop.index = 16
    /\ memop.value
    /\ PressedKeys(memop.before) = {5}
    /\ memop.before.v[15] = 7
    /\ chip = memop.before

\* the display cell DRW with operands o on machine m addresses for (row, col)
DrwCell(m, o, row, col) ==
    ((m.v[o.y] + row) % ScreenHeight) * ScreenWidth + ((m.v[o.x] + col) % ScreenWidth)

\* bit (7 - col) of the sprite row RAM[I + row]
DrwBit(m, o, row, col) == Field(At(m.ram, m.i + row), 7 - col, 1)

\* C23: for all byte values of Vx and Vy, every height n in 0..15 and every
\* row < n, col < 8, DRW first sets VF to 0 and then XORs bit (7 - col) of
\* RAM[I + row] into the display cell at column (Vx + col) mod 64, row
\* (Vy + row) mod 32; afterwards VF = 1 iff at least one cell that was 1 became
\* 0, all cells not addressed are unchanged, and PC has increased by 2.
C23_Draw ==
    (Executed("drw_reg_reg_nibble") /\ Op1.x # 15 /\ Op1.y # 15)
    => /\ ~chip.panic
       /\ \A row \in 0..(Op1.nibble - 1), col \in 0..7 :
              At(chip.screen, DrwCell(x1, Op1, row, col))
                  = (At(x1.screen, DrwCell(x1, Op1, row, col))
                        + DrwBit(x1, Op1, row, col)) % 2
       /\ \A cell \in (DOMAIN chip.screen.nz \cup DOMAIN x1.screen.nz)
                        \ {DrwCell(x1, Op1, row, col) :
                              row \in 0..(Op1.nibble - 1), col \in 0..7} :
              At(chip.screen, cell) = At(x1.screen, cell)
       /\ (chip.v[15] = 1)
              = (\E cell \in DOMAIN x1.screen.nz :
                     At(x1.screen, cell) = 1 /\ At(chip.screen, cell) = 0)
       /\ chip.v[15] \in {0, 1}
       /\ \A r \in 0..14 : chip.v[r] = x1.v[r]
       /\ chip.pc = x1.pc + 2

(***************************************************************************)
(* SpecOps: short programs that set up registers and run one opcode under  *)
(* test, stepped by the host.                                              *)
(*   SubShiftPrograms:  LD Vx,a ; LD Vy,b ; op Vx,Vy   with op one of SUB, *)
(*                      SUBN, SHR, SHL.                                    *)
(***************************************************************************)
SubShiftPrograms ==
    {<<OpXKK(6, x, a), OpXKK(6, y, b), OpXYN(8, x, y, n)>> :
        x \in AluRegs, y \in AluRegs, a \in AluBytes, b \in AluBytes,
        n \in {5, 6, 7, 14}}

\* LD V0,a ; LD V1,b ; LD I,addr ; then two of LD [I],Vx / LD Vx,[I]
BlockAddrs == {0, ProgramStart, 768, RamSize - 16, RamSize - 2}

BlockWord(store, x) == OpXKK(15, x, IF store THEN 85 ELSE 101)

BlockPrograms ==
    {<<OpXKK(6, 0, a), OpXKK(6, 1, b), OpNNN(10, addr),
       BlockWord(s1, x), BlockWord(s2, x)>> :
        a \in {7, 255}, b \in {0, 9}, addr \in BlockAddrs, x \in {0, 1, 2, 15},
        s1 \in BOOLEAN, s2 \in BOOLEAN}

OpsPrograms == SubShiftPrograms \cup BlockPrograms

InitOps ==
    \E words \in OpsPrograms, oc \in BOOLEAN : Built(Assemble(words), oc)

NextOps == Tick(StepKbds, {TRUE}, {0}, NotDue)

SpecOps == InitOps /\ [][NextOps]_vars

\* C24: for all register indices x, y in 0..15 and all byte values: after
\* SUB Vx,Vy, Vx = (old Vx - old Vy) mod 256 and VF = 1 iff old Vx > old Vy
\* (else 0); after SUBN Vx,Vy, Vx = (old Vy - old Vx) mod 256 and VF = 1 iff
\* old Vy > old Vx (else 0), the cases where the subtraction borrows included;
\* both increase PC by 2.
C24_SubSubn ==
    /\ Executed("sub_reg_reg")
       => /\ ~chip.panic
          /\ chip.v[Op1.x] = (x1.v[Op1.x] - x1.v[Op1.y]) % 256
          /\ chip.v[15] = (IF x1.v[Op1.x] > x1.v[Op1.y] THEN 1 ELSE 0)
          /\ chip.pc = x1.pc + 2
    /\ Executed("subn_reg_reg")
       => /\ ~chip.panic
          /\ chip.v[Op1.x] = (x1.v[Op1.y] - x1.v[Op1.x]) % 256
          /\ chip.v[15] = (IF x1.v[Op1.y] > x1.v[Op1.x] THEN 1 ELSE 0)
          /\ chip.pc = x1.pc + 2

\* C25: for every register index x in 0..15 and every byte value: after
\* SHR Vx, VF equals bit 0 of old Vx and Vx = floor(old Vx / 2); after SHL Vx,
\* VF equals bit 7 of old Vx and Vx = (old Vx * 2) mod 256; the shift amount is
\* always 1 and Vy is neither read nor written; both increase PC by 2.
C25_Shifts ==
    /\ Executed("shr_reg_reg")
       => /\ ~chip.panic
          /\ chip.v[15] = x1.v[Op1.x] % 2
          /\ chip.v[Op1.x] = x1.v[Op1.x] \div 2
    /\ Executed("shl_reg_reg")
       => /\ ~chip.panic
          /\ chip.v[15] = x1.v[Op1.x] \div 128
          /\ chip.v[Op1.x] = (x1.v[Op1.x] * 2) % 256
    /\ (Executed("shr_reg_reg") \/ Executed("shl_reg_reg"))
       => /\ \A r \in 0..14 : r # Op1.x => chip.v[r] = x1.v[r]
          /\ chip.pc = x1.pc + 2

(***************************************************************************)
(* SpecSkip: programs  LD Vx,a ; LD Vy,b ; skip  with skip one of          *)
(* SE Vx,b / SNE Vx,b / SE Vx,Vy / SNE Vx,Vy / SKP Vx / SKNP Vx, stepped   *)
(* by the host while the keyboard keys of the chip keys 2 and F go down    *)
(* and up.                                                                 *)
(***************************************************************************)
SkipRegs == {0, 15}
SkipValues == {0, 2, 15, 16}

SkipWord(k, x, y, b) ==
    CASE k = 1 -> OpXKK(3, x, b)
      [] k = 2 -> OpXKK(4, x, b)
      [] k = 3 -> OpXYN(5, x, y, 0)
      [] k = 4 -> OpXYN(9, x, y, 0)
      [] k = 5 -> OpXKK(14, x, 158)
      [] k = 6 -> OpXKK(14, x, 161)

SkipPrograms ==
    {<<OpXKK(6, x, a), OpXKK(6, y, b), SkipWord(k, x, y, b)>> :
        x \in SkipRegs, y \in SkipRegs, a \in SkipValues, b \in SkipValues,
        k \in 1..6}

InitSkip ==
    \E words \in SkipPrograms, oc \in BOOLEAN : Built(Assemble(words), oc)

NextSkip == Tick(KeyKbds, {TRUE}, {0}, NotDue)

SpecSkip == InitSkip /\ [][NextSkip]_vars

\* the condition under which the skip handler named exec, run with operands o
\* on machine m, skips
SkipCondition(exec, o, m) ==
    CASE exec = "se_reg_byte" -> m.v[o.x] = o.kk
      [] exec = "sne_reg_byte" -> m.v[o.x] # o.kk
      [] exec = "se_reg_reg" -> m.v[o.x] = m.v[o.y]
      [] exec = "sne_reg_reg" -> m.v[o.x] # m.v[o.y]
      [] exec = "skp_reg" -> m.v[o.x] \in PressedKeys(m)
      [] exec = "sknp_reg" -> m.v[o.x] \notin PressedKeys(m)

\* C26: each conditional skip adds 4 to PC when its condition holds and 2
\* otherwise, and changes nothing else: SE Vx,kk (Vx = kk), SNE Vx,kk
\* (Vx # kk), SE Vx,Vy (Vx = Vy), SNE Vx,Vy (Vx # Vy), SKP Vx (key flag
\* number Vx is set) and SKNP Vx (key flag number Vx is clear), the key skips
\* for Vx in 0..15.
C26_Skips ==
    (/\ last.executed
     /\ x1.next_instruction.exec \in {"se_reg_byte", "sne_reg_byte", "se_reg_reg",
                                      "sne_reg_reg", "skp_reg", "sknp_reg"}
     /\ x1.next_instruction.exec \in {"skp_reg", "sknp_reg"} => x1.v[Op1.x] <= 15)
    => /\ ~chip.panic
       /\ chip.pc = x1.pc + (IF SkipCondition(x1.next_instruction.exec, Op1, x1)
                             THEN 4 ELSE 2)
       /\ chip.v = x1.v /\ SameISp(chip, x1)
       /\ chip.ram = x1.ram /\ chip.stack = x1.stack
       /\ chip.screen = x1.screen /\ chip.keys = x1.keys
       /\ chip.dt = x1.dt /\ chip.st = x1.st
       /\ chip.calls = <<>>

\* C26 witness: SKP V0 with V0 = 15 and key F down has skipped, although
\* key 0 is up
C26_Witness ==
    /\ Ran("skp_reg")
    /\ Op1.x = 0
    /\ x1.v[0] = 15
    /\ PressedKeys(x1) = {2, 15}
    /\ chip.pc = x1.pc + 4

\* the RAM addresses I..I+x of a block transfer entered in machine m
BlockCells(o, m) == {m.i + k : k \in 0..o.x}

\* C27: for I + x < 4096, LD [I],Vx writes V0..Vx inclusive (x + 1 bytes) to
\* RAM[I..I+x] and changes no register and not I; LD Vx,[I] loads RAM[I..I+x]
\* into V0..Vx and changes no RAM byte, no register above Vx and not I; LD [I],Vx
\* followed by LD Vx,[I] with the same x and I leaves V0..VF as they were; each
\* adds 2 to PC.
C27_BlockTransfer ==
    /\ (Executed("ld_to_i_reg") /\ x1.i + Op1.x < RamSize) =>
        /\ ~chip.panic
        /\ \A k \in 0..Op1.x : At(chip.ram, x1.i + k) = x1.v[k]
        /\ SameBytesExcept(chip.ram, x1.ram, BlockCells(Op1, x1))
        /\ chip.v = x1.v /\ SameISp(chip, x1)
        /\ chip.dt = x1.dt /\ chip.st = x1.st
        /\ chip.pc = x1.pc + 2
    /\ (Executed("ld_reg_from_i") /\ x1.i + Op1.x < RamSize) =>
        /\ ~chip.panic
        /\ \A k \in 0..Op1.x : chip.v[k] = At(x1.ram, x1.i + k)
        /\ \A k \in (Op1.x + 1)..(NumRegs - 1) : chip.v[k] = x1.v[k]
        /\ chip.ram = x1.ram /\ SameISp(chip, x1)
        /\ chip.pc = x1.pc + 2
    /\ (/\ ExecutedPair("ld_to_i_reg", "ld_reg_from_i")
        /\ Op1.x = Op2.x
        /\ x2.i + Op2.x < RamSize) =>
        /\ x1.i = x2.i
        /\ chip.v = x2.v

\* C27 witness: LD [I],V1 put V0 = 255 and V1 = 9 at the last two bytes of RAM
\* and LD V1,[I] has read them back
C27_Witness ==
    /\ ExecutedPair("ld_to_i_reg", "ld_reg_from_i")
    /\ ~chip.panic
    /\ Op1.x = 1 /\ Op2.x = 1
    /\ x2.i = RamSize - 2
    /\ x2.v[0] = 255 /\ x2.v[1] = 9
    /\ At(x1.ram, RamSize - 2) = 255 /\ At(x1.ram, RamSize - 1) = 9
    /\ chip.v[0] = 255 /\ chip.v[1] = 9
    /\ chip.pc = x2.pc + 4

(***************************************************************************)
(* SpecFrame: programs  LD V0,2 ; DRW V0,V0,5 ; op1 ; op2  with op1 any    *)
(* word of FrameWords, which holds one word of every opcode the decoder    *)
(* binds and two it does not, and op2 one of CLS, DRW and LD V1,K, stepped *)
(* by the host while the keyboard keys of the chip keys 2 and F go down    *)
(* and up.                                                                 *)
(***************************************************************************)
FrameWords ==
    {224, 238, 291, OpNNN(1, ProgramStart + 8), OpNNN(2, ProgramStart + 8),
     OpXKK(3, 0, 2), OpXKK(4, 0, 2), OpXYN(5, 0, 1, 0), OpXKK(6, 1, 5),
     OpXKK(7, 1, 3), OpXYN(9, 0, 1, 0), OpNNN(10, 5), OpNNN(11, 768),
     OpXKK(12, 1, 255), OpXYN(13, 0, 1, 2), OpXKK(14, 0, 158), OpXKK(14, 0, 161),
     OpXKK(15, 1, 7), OpXKK(15, 1, 10), OpXKK(15, 0, 21), OpXKK(15, 0, 24),
     OpXKK(15, 0, 30), OpXKK(15, 0, 41), OpXKK(15, 0, 51), OpXKK(15, 1, 85),
     OpXKK(15, 1, 101), OpXYN(8, 0, 1, 8), 65535}
        \cup {OpXYN(8, 0, 1, n) : n \in {0, 1, 2, 3, 4, 5, 6, 7, 14}}

FramePrograms ==
    {<<OpXKK(6, 0, 2), OpXYN(13, 0, 0, 5), op1, op2>> :
        op1 \in FrameWords, op2 \in {224, OpXYN(13, 0, 1, 2), OpXKK(15, 1, 10)}}

InitFrame ==
    \E words \in FramePrograms, oc \in BOOLEAN : Built(Assemble(words), oc)

NextFrame == Tick(KeyKbds, {TRUE}, {0}, NotDue)

SpecFrame == InitFrame /\ [][NextFrame]_vars

\* C28: across any sequence of executed instructions the display buffer
\* changes only in steps that execute DRW or CLS, and the 16 key flags change
\* only through the host's set_key_pressed, never through an opcode handler
\* (the flags after an execute_instruction are the flags at its entry).
C28_Frame ==
    [][/\ chip'.screen # chip.screen
          => /\ last'.executed
             /\ x1'.next_instruction.exec \in {"drw_reg_reg_nibble", "clean_screen"}
       /\ last'.executed => chip'.keys = x1'.keys]_vars

\* C28 witness: with the sprite drawn and the keys 2 and F down, LD V1,K has
\* taken key 2 and left display and key flags as they were
C28_Witness ==
    /\ Ran("ld_reg_k")
    /\ PressedKeys(x1) = {2, 15}
    /\ chip.v[1] = 2
    /\ PressedKeys(chip) = {2, 15}
    /\ ~Blank(chip.screen)
    /\ chip.screen = x1.screen

\* C29: 16-bit memory access is big-endian and round-trips: after a
\* successful write16(offset, v) the byte at offset is v div 256 and the byte
\* at offset + 1 is v mod 256, a read16(offset) that follows returns v, and a
\* read16(offset) always returns 256 * read8(offset) + read8(offset + 1).
C29_BigEndian ==
    /\ (memop.op = "write16" /\ memop.ok) =>
        /\ At(mem, memop.offset) = memop.value \div 256
        /\ At(mem, memop.offset + 1) = memop.value % 256
    /\ (/\ memop.op = "read16"
        /\ memop.after.op = "write16"
        /\ memop.after.ok
        /\ memop.after.offset = memop.offset) =>
        /\ memop.ok
        /\ memop.val = memop.after.value
    /\ (memop.op = "read16" /\ memop.ok) =>
        /\ read8(memop.before, memop.offset).ok
        /\ read8(memop.before, memop.offset + 1).ok
        /\ memop.val = 256 * read8(memop.before, memop.offset).val
                           + read8(memop.before, memop.offset + 1).val

\* C29 witness: write16(1, 0xFF01) on a 3-byte Memory put 0xFF at offset 1 and
\* 0x01 at offset 2, and the read16(1) that followed returned 0xFF01
C29_Witness ==
    /\ memop.op = "read16"
    /\ memop.ok
    /\ memop.offset = 1
    /\ memop.after.op = "write16"
    /\ memop.after.offset = 1
    /\ memop.after.value = 65281
    /\ Bytes(memop.after.before) = (0 :> 7 @@ 1 :> 7 @@ 2 :> 7)
    /\ Bytes(memop.before) = (0 :> 7 @@ 1 :> 255 @@ 2 :> 1)
    /\ memop.val = 65281

\* C30: a CALL executed when the stack is full (SP = 32, after 16 nested
\* calls) performs no push and no jump: stack contents, SP and PC are
\* unchanged, and the instruction executed next is the same CALL in the same
\* state, which fails again: the program never progresses past it.
C30_FullStack ==
    /\ (Executed("call_addr") /\ x1.sp = StackSize) =>
        /\ ~chip.panic
        /\ chip.stack = x1.stack
        /\ chip.sp = x1.sp
        /\ chip.pc = x1.pc
    /\ (/\ last.execs = 2
        /\ x2.next_instruction.exec = "call_addr"
        /\ x2.sp = StackSize) =>
        /\ x1.next_instruction = x2.next_instruction
        /\ x1.pc = x2.pc /\ x1.sp = x2.sp /\ x1.stack = x2.stack
        /\ chip.pc = x2.pc /\ chip.sp = x2.sp /\ chip.stack = x2.stack

\* C30 witness: after sixteen nested CALL 0x200 filled the stack, the CALL was
\* executed twice more and left PC, SP and the stack as they were
C30_Witness ==
    /\ last.execs = 2
    /\ x2.next_instruction.exec = "call_addr"
    /\ x2.sp = StackSize
    /\ Executed("call_addr")
    /\ x1.sp = StackSize
    /\ \A k \in 0..(StackSize \div 2 - 1) :
           read16(chip.stack, 2 * k) = [ok |-> TRUE, val |-> ProgramStart]
    /\ chip.pc = ProgramStart
    /\ chip.sp = StackSize

\* C31: the call stack is LIFO: for any n <= 16, n nested CALLs from call
\* sites a1..an followed by n RETs set PC to an + 2, ..., a1 + 2 in that order
\* and leave SP at its starting value (each RET resumes after the newest call
\* not yet returned from and restores the SP that call started with); RET
\* never modifies stack bytes, and CALL modifies only the two bytes at the old
\* SP.
C31_Lifo ==
    /\ Len(last.pending) <= StackSize \div 2
    /\ (Executed("ret") /\ last.popped # <<>>) =>
        /\ ~chip.panic
        /\ chip.pc = last.popped[1].site + 2
        /\ chip.sp = last.popped[1].sp
        /\ chip.stack = x1.stack
    /\ (Executed("call_addr") /\ x1.sp <= StackSize - 2) =>
        /\ ~chip.panic
        /\ last.pending[Len(last.pending)] = [site |-> x1.pc, sp |-> x1.sp]
        /\ SameBytesExcept(chip.stack, x1.stack, {x1.sp, x1.sp + 1})
        /\ len(chip.stack) = StackSize

\* C31 witness: sixteen nested calls from the sites 0x204 and 0x20C in turn
\* filled the stack, and the last of the sixteen RETs has resumed after the
\* first call with SP back at 0
C31_Witness ==
    /\ ExecutedPair("ret", "ret")
    /\ x2.sp = 4 /\ x1.sp = 2
    /\ x1.pc = ProgramStart + 14
    /\ \A k \in 0..(StackSize \div 4 - 1) :
           /\ read16(chip.stack, 4 * k).val = ProgramStart + 4
           /\ read16(chip.stack, 4 * k + 2).val = ProgramStart + 12
    /\ last.popped = <<[site |-> ProgramStart + 4, sp |-> 0]>>
    /\ last.pending = <<>>
    /\ chip.pc = ProgramStart + 6
    /\ chip.sp = 0

(***************************************************************************)
(* SpecEnd: programs that take PC to the end of RAM and past it,           *)
(*   LD V2,2 ; LD DT,V2 ; LD V0,a ; JP V0,nnn   with nnn + a around 0xFFF, *)
(*   LD V2,2 ; LD DT,V2 ; LD V0,hi ; LD V1,lo ; LD I,addr ; LD [I],V1 ;    *)
(*   JP addr                                                               *)
(* the second putting the instruction hi lo in the last bytes of RAM and   *)
(* running it, stepped by the host with keys going down and up and the     *)
(* timers due or not.                                                      *)
(***************************************************************************)
EndJumps ==
    {<<OpXKK(6, 2, 2), OpXKK(15, 2, 21), OpXKK(6, 0, a), OpNNN(11, nnn)>> :
        a \in {1, 255}, nnn \in {RamSize - 256, RamSize - 3, RamSize - 2, RamSize - 1}}

EndRuns ==
    {<<OpXKK(6, 2, 2), OpXKK(15, 2, 21), OpXKK(6, 0, w \div 256),
       OpXKK(6, 1, w % 256), OpNNN(10, addr), OpXKK(15, 1, 85), OpNNN(1, addr)>> :
        w \in {OpXKK(6, 0, 5), OpXKK(3, 0, 48), OpXKK(7, 2, 1)},
        addr \in {RamSize - 4, RamSize - 3, RamSize - 2}}

InitEnd ==
    \E words \in EndJumps \cup EndRuns, oc \in BOOLEAN : Built(Assemble(words), oc)

NextEnd == Tick(KeyKbds, {TRUE}, {0}, {<<FALSE, FALSE>>, <<TRUE, TRUE>>})

SpecEnd == InitEnd /\ [][NextEnd]_vars

\* C32: when PC >= 0xFFF (after JP V0 with nnn + V0 > 0xFFE, or after running
\* off the end of RAM) fetch_next_instruction returns an error and the host
\* tick returns before decode and execute: no instruction is executed and
\* registers, timers, RAM, stack, display and need_to_fetch are the same after
\* the tick as before it, so the same holds on every later tick; the process
\* does not abort.
C32_Stall ==
    [][chip.pc >= RamSize - 1
       => /\ last'.fetch_failed
          /\ ~last'.fetched
          /\ ~last'.executed
          /\ ~chip'.panic
          /\ SameMachine(chip', chip)
          /\ chip'.dt_instant = chip.dt_instant
          /\ chip'.st_instant = chip.st_instant
          /\ chip'.need_to_fetch = chip.need_to_fetch
          /\ chip'.next_instruction = chip.next_instruction]_vars

\* C32 witness: JP V0,0xFFF with V0 = 255 left PC = 0x10FE, and the tick after
\* it failed to fetch while the delay timer still holds a count
C32_Witness ==
    /\ last.fetch_failed
    /\ ~last.executed
    /\ x1.next_instruction.exec = "jp_v0_addr"
    /\ x1.v[0] = 255
    /\ chip.pc = RamSize - 1 + 255
    /\ chip.dt > 0
    /\ chip.need_to_fetch
    /\ ~chip.panic

\* C33: in every reachable state each of the 2048 display cells holds 0 or 1:
\* DRW only XORs a cell with a sprite bit that is 0 or 1, and CLS writes 0.
C33_Bits ==
    /\ len(chip.screen) = ScreenWidth * ScreenHeight
    /\ DOMAIN chip.screen.nz \subseteq Cells
    /\ \A cell \in DOMAIN chip.screen.nz : At(chip.screen, cell) \in {0, 1}
    /\ Executed("clean_screen") => Blank(chip.screen)

\* C33 witness: a second DRW of the 5-row glyph has drawn over the first, so
\* that lit cells went out (VF = 1), and the display before it held lit cells
C33_Witness ==
    /\ ExecutedPair("drw_reg_reg_nibble", "drw_reg_reg_nibble")
    /\ ~chip.panic
    /\ Op1.nibble = 5
    /\ x1.i = 0
    /\ Blank(x2.screen)
    /\ \E cell \in Cells : At(x1.screen, cell) = 1
    /\ chip.v[15] = 1
    /\ Blank(chip.screen)

====
